---- MODULE Spec2Model ----
(***************************************************************************)
(* Botfighter: the sensor-based decision policy (dummy_agent.py), the      *)
(* state cache and decide endpoint of the server (server.py) and the       *)
(* simulation engine with its patrol machine (engine.py).                  *)
(*                                                                         *)
(* Numbers.  Python floats are kept as scaled integers: a command's        *)
(* rotate and thrust are in hundredths (rotate 4500 = 45 degrees, thrust   *)
(* -80 = -0.8).  Radar distances and angles are whole units and degrees.   *)
(* Wall-clock time (time.time()) is kept as ages: the whole seconds since  *)
(* the timestamp a field holds, saturated one past the threshold the code  *)
(* compares it with.                                                       *)
(***************************************************************************)
EXTENDS Integers, Sequences, FiniteSets, TLC

VARIABLES
    agent,        \* the DummyAgent instance under test (server.py:114)
    sensor_data,  \* argument of the last decide_from_sensors / decide call
    ret,          \* what the last call returned (or that it raised)
    call,         \* the entry point and argument shape of the last call
    raised_inside,\* an exception was raised inside the last decide call
    access,       \* ACCESS_SERVER_FLAG (engine.py:30), set once at start-up
    tick,         \* main loop, agent mode: what the tick applied to ship 0
    h_adv,        \* history: at least a second has passed since the last call
    h_cnt,        \* history: position samples fed so far, see FeedStep
    h_low,        \* history: how many of them were < 5 from the one before
    h_far,        \* history: the last fed sample was >= 5 from the one before
    h_broken,     \* history: some call so far was not a spaced position sample
    h_prev,       \* history: the position of the last fed sample
    low_run,      \* history: consecutive latest compared samples below 5
    enemy,        \* patrol fields of one enemy ship and what its tick applied
    p_quiet,      \* history: no wall and no turn draw since FORWARD, timer < 180
    game_state,   \* server.py: the cached game state (server.py:105)
    reply,        \* what the last GET /game_state returned
    posted,       \* the last body POSTed to /update_state and its status
    h_rt,         \* history: the last two requests were a stored POST, then a GET
    publisher,    \* engine: update count, last_state_update_time, publishes
    inflight,     \* the send threads started and not yet finished
    cache_src,    \* history: the publish whose state the cache holds (0: none)
    h_lost,       \* history: some send failed
    h_gap,        \* history: periods passed since the last publish started
    ships,        \* engine.ships: the live ship list, the player first
    bullets,      \* engine.bullets
    score,        \* engine.score
    frames,       \* main-loop iterations run so far
    next_id,      \* history: identity given to the next ship created
    h_selfhit,    \* history: a bullet has damaged the ship that fired it
    h_phases,     \* history: the steps of the last update, in the order taken
    engine_coins, \* engine.coins
    h_nocoin,     \* history: generate_coins has found no place for a coin
    h_acts,       \* history: the enemy loop of the last frame, ship by ship
    probe         \* server: the arguments of a sensor helper, and its result

agentVars == <<agent, sensor_data, ret, call, raised_inside, access, tick, h_adv, h_cnt, h_low, h_far, h_broken, h_prev, low_run>>

patrolVars == <<enemy, p_quiet>>

\* everything outside the agent and its control loop
cacheVars == <<game_state, reply, posted, h_rt>>

netVars == <<publisher, inflight, cache_src, h_lost, h_gap>>

engineVars == <<ships, bullets, score, frames, next_id, h_selfhit, h_phases, engine_coins, h_nocoin, h_acts>>

senseVars == <<probe>>

worldVars == <<patrolVars, cacheVars, netVars, engineVars, senseVars>>

vars == <<agentVars, worldVars>>

----------------------------------------------------------------------------
(* Helpers *)

Abs(x) == IF x < 0 THEN -x ELSE x

Max(a, b) == IF a > b THEN a ELSE b

Min(a, b) == IF a < b THEN a ELSE b

\* 1 if angle > 0 else -1
SignOf(angle) == IF angle > 0 THEN 1 ELSE -1

----------------------------------------------------------------------------
(* Values *)

NoPos == <<>>

\* A returned value: kind "cmd" is a dict with rotate, thrust and shoot;
\* kind "raise" stands for an exception leaving the call.
Cmd(r, t, s) == [kind |-> "cmd", rotate |-> r, thrust |-> t, shoot |-> s]

Raised == [kind |-> "raise", rotate |-> 0, thrust |-> 0, shoot |-> FALSE]

NeutralCommand == Cmd(0, 0, FALSE)

NoReturn == [kind |-> "none", rotate |-> 0, thrust |-> 0, shoot |-> FALSE]

\* Ages saturate one past the threshold they are compared with.
StuckCheckPeriod == 1

MemoryWindow == 2

DirectionChangePeriod == 3

StuckThreshold == 3

MoveThreshold == 5

\* DummyAgent.__init__.  Left out: last_position, last_check_time, wall_memory
\* and the thrust and shoot of last_actions, which the code writes and never
\* reads, and ship_index, which is fixed.
FreshAgent ==
    [ check_age        |-> 0,
      position         |-> NoPos,
      is_stuck         |-> FALSE,
      stuck_count      |-> 0,
      escape_direction |-> 1,
      last_rotate      |-> 0,
      mem_type         |-> "none",
      mem_angle        |-> 0,
      mem_age          |-> MemoryWindow,
      current_rotation |-> 0,
      dir_age          |-> 0 ]

\* A radar entry; type "nokey" is an entry without a "type" key.
RadarObj(t, d, a) == [type |-> t, distance |-> d, angle |-> a]

\* Sensor data.  kind: "null" (None or an empty dict), "dict" (a plain dict,
\* as server.sense returns), "obj" (a mapping that also has a position
\* attribute).  pos is the position it carries, NoPos if none.
\* laser_kind: "num", "null" (laser_distance is None), "missing" (no key).
Sensor(k, p, hit, lk, ld, radar) ==
    [kind |-> k, pos |-> p, laser_hit |-> hit, laser_kind |-> lk,
     laser_distance |-> ld, radar_objects |-> radar]

NoSensor == Sensor("null", NoPos, FALSE, "missing", 0, <<>>)

----------------------------------------------------------------------------
(* dummy_agent.py *)

\* _calculate_turn_rate, in hundredths of a degree
_calculate_turn_rate(angle, aggressive) ==
    IF ~aggressive
    THEN IF Abs(angle) < 20 THEN angle * 15
         ELSE IF Abs(angle) < 90 THEN 300 * SignOf(angle)
         ELSE 400 * SignOf(angle)
    ELSE IF Abs(angle) < 20 THEN angle * 20
         ELSE IF Abs(angle) < 90 THEN 500 * SignOf(angle)
         ELSE 800 * SignOf(angle)

\* distance_moved < 5, from dx*dx + dy*dy
BarelyMoved(p, q) ==
    (p[1] - q[1]) * (p[1] - q[1]) + (p[2] - q[2]) * (p[2] - q[2])
        < MoveThreshold * MoveThreshold

\* hasattr(sensor_data, "position"): a plain dict has no such attribute
CurrentPos(sd) == IF sd.kind = "obj" THEN sd.pos ELSE NoPos

\* _update_stuck_detection with the threshold lowered by one
UpdateStuckOffByOne(a, sd) ==
    LET current_pos == CurrentPos(sd) IN
    IF a.position = NoPos /\ current_pos # NoPos
    THEN [a EXCEPT !.position = current_pos, !.check_age = 0]
    ELSE IF current_pos # NoPos
    THEN LET a1 == IF BarelyMoved(current_pos, a.position)
                   THEN [a EXCEPT !.stuck_count = @ + 1,
                                  !.is_stuck = IF a.stuck_count + 1 >= StuckThreshold - 1
                                               THEN TRUE ELSE @]
                   ELSE [a EXCEPT !.is_stuck = FALSE,
                                  !.stuck_count = Max(0, @ - 1)]
         IN [a1 EXCEPT !.position = current_pos, !.check_age = 0]
    ELSE [a EXCEPT !.check_age = 0]

\* _update_stuck_detection
_update_stuck_detection(a, sd) ==
    LET current_pos == CurrentPos(sd) IN
    IF a.position = NoPos /\ current_pos # NoPos
    THEN [a EXCEPT !.position = current_pos, !.check_age = 0]
    ELSE IF current_pos # NoPos
    THEN LET a1 == IF BarelyMoved(current_pos, a.position)
                   THEN [a EXCEPT !.stuck_count = @ + 1,
                                  !.is_stuck = IF a.stuck_count + 1 >= StuckThreshold
                                               THEN TRUE ELSE @]
                   ELSE [a EXCEPT !.is_stuck = FALSE,
                                  !.stuck_count = Max(0, @ - 1)]
         IN [a1 EXCEPT !.position = current_pos, !.check_age = 0]
    ELSE [a EXCEPT !.check_age = 0]

\* the stuck check of decide_from_sensors: once more than a second has passed
StuckChecked(a, sd) ==
    IF a.check_age > StuckCheckPeriod THEN _update_stuck_detection(a, sd) ELSE a

\* _random_action: uniform(-3,3), uniform(0.1,0.5), random() < 0.05
_random_action ==
    { Cmd(r, t, s) : r \in {-300, 300}, t \in {10, 50}, s \in BOOLEAN }

\* the entries of the radar list of one type, in list order
OfType(radar, t) == SelectSeq(radar, LAMBDA o : o.type = t)

\* list.sort(key=distance)[0]: the first entry of least distance (stable sort)
Nearest(objs) ==
    LET least == CHOOSE d \in {objs[i].distance : i \in 1..Len(objs)} :
                    \A j \in 1..Len(objs) : d <= objs[j].distance
        first == CHOOSE i \in 1..Len(objs) :
                    /\ objs[i].distance = least
                    /\ \A j \in 1..(i - 1) : objs[j].distance # least
    IN objs[first]

\* the enemy branch of decide_from_sensors
EnemyCommand(e) ==
    IF e.distance < 100
    THEN IF e.distance < 50
         THEN Cmd(_calculate_turn_rate(e.angle, TRUE), -50, Abs(e.angle) < 15)
         ELSE Cmd(300 * SignOf(e.angle), 30, Abs(e.angle) < 10)
    ELSE Cmd(_calculate_turn_rate(e.angle, FALSE),
             IF Abs(e.angle) < 30 THEN 50 ELSE 20,
             Abs(e.angle) < 5 /\ e.distance < 300)

\* the coin branch of decide_from_sensors
CoinCommand(c) ==
    Cmd(_calculate_turn_rate(c.angle, FALSE),
        IF Abs(c.angle) < 30 THEN 100 ELSE 50, FALSE)

Remember(a, t, o) == [a EXCEPT !.mem_type = t, !.mem_angle = o.angle, !.mem_age = 0]

\* target selection with the coins looked at before the enemies
TargetsCoinsFirst(a, sd) ==
    LET radar   == sd.radar_objects
        enemies == OfType(radar, "enemy")
        coins   == OfType(radar, "coin")
    IN
    IF \E i \in 1..Len(radar) : radar[i].type = "nokey"
    THEN { [a |-> a, out |-> Raised] }
    ELSE IF coins # <<>>
    THEN { [a |-> Remember(a, "coin", Nearest(coins)), out |-> CoinCommand(Nearest(coins))] }
    ELSE IF enemies # <<>>
    THEN { [a |-> Remember(a, "enemy", Nearest(enemies)), out |-> EnemyCommand(Nearest(enemies))] }
    ELSE IF a.mem_type # "none" /\ a.mem_age < MemoryWindow
    THEN { [a |-> a, out |-> Cmd(_calculate_turn_rate(a.mem_angle, FALSE), 70, FALSE)] }
    ELSE IF a.dir_age > DirectionChangePeriod
    THEN { [a |-> [a EXCEPT !.current_rotation = r, !.dir_age = 0],
            out |-> Cmd(r, 50, FALSE)] : r \in {-200, 200} }
    ELSE { [a |-> a, out |-> Cmd(a.current_rotation, 50, FALSE)] }

\* decide_from_sensors from "Search for objects in radar" on: the set of
\* outcomes [a: the agent afterwards, out: the value returned]
Targets(a, sd) ==
    LET radar   == sd.radar_objects
        enemies == OfType(radar, "enemy")
        coins   == OfType(radar, "coin")
    IN
    IF \E i \in 1..Len(radar) : radar[i].type = "nokey"
    THEN { [a |-> a, out |-> Raised] }
    ELSE IF enemies # <<>>
    THEN { [a |-> Remember(a, "enemy", Nearest(enemies)), out |-> EnemyCommand(Nearest(enemies))] }
    ELSE IF coins # <<>>
    THEN { [a |-> Remember(a, "coin", Nearest(coins)), out |-> CoinCommand(Nearest(coins))] }
    ELSE IF a.mem_type # "none" /\ a.mem_age < MemoryWindow
    THEN { [a |-> a, out |-> Cmd(_calculate_turn_rate(a.mem_angle, FALSE), 70, FALSE)] }
    ELSE IF a.dir_age > DirectionChangePeriod
    THEN { [a |-> [a EXCEPT !.current_rotation = r, !.dir_age = 0],
            out |-> Cmd(r, 50, FALSE)] : r \in {-200, 200} }
    ELSE { [a |-> a, out |-> Cmd(a.current_rotation, 50, FALSE)] }

\* the mutant of Laser that looks for a wall ahead below 30 before it looks
\* for one below 50
LaserHardFirst(a, sd) ==
    IF ~sd.laser_hit THEN Targets(a, sd)
    ELSE IF sd.laser_kind = "null" THEN { [a |-> a, out |-> Raised] }
    ELSE LET distance == IF sd.laser_kind = "missing" THEN 100 ELSE sd.laser_distance
             turn_direction == IF a.last_rotate >= 0 THEN 1 ELSE -1
         IN
         IF distance < 30
         THEN { [a |-> a, out |-> Cmd(500 * c, 0, FALSE)] : c \in {-1, 1} }
         ELSE IF distance < 50
         THEN { [a |-> a,
                 out |-> Cmd((IF distance < 20 THEN 1500 ELSE 800) * turn_direction,
                             IF distance < 20 THEN 0 ELSE 10, FALSE)] }
         ELSE Targets(a, sd)

\* decide_from_sensors from the laser rules on
Laser(a, sd) ==
    IF ~sd.laser_hit THEN Targets(a, sd)
    ELSE IF sd.laser_kind = "null" THEN { [a |-> a, out |-> Raised] }
    ELSE LET distance == IF sd.laser_kind = "missing" THEN 100 ELSE sd.laser_distance
             turn_direction == IF a.last_rotate >= 0 THEN 1 ELSE -1
         IN
         IF distance < 50
         THEN { [a |-> a,
                 out |-> Cmd((IF distance < 20 THEN 1500 ELSE 800) * turn_direction,
                             IF distance < 20 THEN 0 ELSE 10, FALSE)] }
         ELSE IF distance < 30
         THEN { [a |-> a, out |-> Cmd(500 * c, 0, FALSE)] : c \in {-1, 1} }
         ELSE Targets(a, sd)

\* decide_from_sensors: the set of outcomes of one call
decide_from_sensors(a, sd) ==
    IF sd.kind = "null"
    THEN { [a |-> a, out |-> c] : c \in _random_action }
    ELSE LET a1 == StuckChecked(a, sd) IN
         IF a1.is_stuck
         THEN LET a2 == [a1 EXCEPT !.escape_direction = -@] IN
              { [a |-> a2,
                 out |-> Cmd(4500 * a2.escape_direction,
                             IF a2.stuck_count % 2 = 0 THEN -80 ELSE 20, FALSE)] }
         ELSE Laser(a1, sd)

\* _legacy_decide: uniform(-5,5), uniform(0,1), random() < 0.1, or the default
\* the mutant of _legacy_decide that draws the thrust like the rotation
LegacyThrustLikeRotate ==
    { Cmd(r, t, s) : r \in {-500, 500}, t \in {-500, 500}, s \in BOOLEAN }
        \cup { Cmd(50, 50, FALSE) }

_legacy_decide ==
    { Cmd(r, t, s) : r \in {-500, 500}, t \in {0, 100}, s \in BOOLEAN }
        \cup { Cmd(50, 50, FALSE) }

\* The game_state argument of decide.  shape: "sensor" (has a laser_hit key;
\* sensor is the data), "legacy" (a dict without it; nships is the length of
\* its ships list, -1 if it has no ships key), "none" (None), "wrongtype"
\* (a value `in` cannot search, e.g. a number).
GameState(sh, sd, n) == [shape |-> sh, sensor |-> sd, nships |-> n]

\* decide with no except clause: the exception leaves the call
DecideNoHandler(a, gs) ==
    IF gs.shape \in {"none", "wrongtype"}
    THEN { [a |-> a, out |-> Raised, exc |-> TRUE] }
    ELSE IF gs.shape = "sensor"
    THEN { [a |-> o.a, out |-> o.out, exc |-> (o.out.kind = "raise")] :
              o \in decide_from_sensors(a, gs.sensor) }
    ELSE IF gs.nships < 0
    THEN { [a |-> a, out |-> Raised, exc |-> TRUE] }
    ELSE IF 0 < gs.nships
    THEN { [a |-> a, out |-> c, exc |-> FALSE] : c \in _legacy_decide }
    ELSE { [a |-> a, out |-> NeutralCommand, exc |-> FALSE] }

\* decide: the set of outcomes [a, out, exc: an exception was caught]
decide(a, gs) ==
    IF gs.shape \in {"none", "wrongtype"}
    THEN { [a |-> a, out |-> NeutralCommand, exc |-> TRUE] }
    ELSE IF gs.shape = "sensor"
    THEN { [a |-> o.a,
            out |-> IF o.out.kind = "raise" THEN NeutralCommand ELSE o.out,
            exc |-> (o.out.kind = "raise")] :
              o \in decide_from_sensors(a, gs.sensor) }
    ELSE IF gs.nships < 0
    THEN { [a |-> a, out |-> NeutralCommand, exc |-> TRUE] }
    ELSE IF 0 < gs.nships
    THEN { [a |-> a, out |-> c, exc |-> FALSE] : c \in _legacy_decide }
    ELSE { [a |-> a, out |-> NeutralCommand, exc |-> FALSE] }

----------------------------------------------------------------------------
(* History of the position samples fed to the stuck detector.  A call feeds *)
(* a sample when its sensor data is non-null, carries a position, and comes *)
(* at least a second after the previous call and the previous stuck check.  *)

MaxFed == 4

MaxStuckCount == 4

CarriesPos(sd) == sd.kind # "null" /\ sd.pos # NoPos

\* h_broken: some call so far fed no spaced sample, or more than MaxFed
\* samples were fed; the feed history is then dropped.
FeedStep(sd) ==
    LET spaced == CarriesPos(sd) /\ h_adv /\ agent.check_age >= 1
        low    == h_prev # NoPos /\ BarelyMoved(sd.pos, h_prev)
        broken == h_broken \/ ~spaced \/ h_cnt >= MaxFed
        compared == /\ sd.kind = "obj" /\ sd.pos # NoPos
                    /\ agent.check_age > StuckCheckPeriod
                    /\ agent.position # NoPos
    IN
    /\ h_adv' = FALSE
    /\ h_broken' = broken
    /\ h_cnt' = IF broken THEN 0 ELSE h_cnt + 1
    /\ h_low' = IF broken THEN 0 ELSE IF low THEN h_low + 1 ELSE h_low
    /\ h_far' = (~broken /\ h_prev # NoPos /\ ~low)
    /\ h_prev' = IF broken THEN NoPos ELSE sd.pos
    /\ low_run' = IF ~compared THEN low_run
                  ELSE IF BarelyMoved(sd.pos, agent.position)
                       THEN Min(low_run + 1, StuckThreshold) ELSE 0

----------------------------------------------------------------------------
(* Actions of the agent *)

NoCall == [fn |-> "none", shape |-> "none", nships |-> 0]

NoTick == [outcome |-> "none", crashed |-> FALSE,
           rotate |-> 0, thrust |-> 0, shoot |-> FALSE]

historyVars == <<h_adv, h_cnt, h_low, h_far, h_broken, h_prev, low_run>>

\* a second of wall-clock time passes between two calls
Advance ==
    /\ ~tick.crashed
    /\ agent' = [agent EXCEPT
                   !.check_age = Min(@ + 1, StuckCheckPeriod + 1),
                   !.mem_age   = Min(@ + 1, MemoryWindow),
                   !.dir_age   = Min(@ + 1, DirectionChangePeriod + 1)]
    /\ h_adv' = TRUE
    /\ <<agent, h_adv>>' # <<agent, h_adv>>
    /\ UNCHANGED <<sensor_data, ret, call, raised_inside, access, tick,
                   h_cnt, h_low, h_far, h_broken, h_prev, low_run>>
    /\ UNCHANGED worldVars

CallDecideFromSensors(sd) ==
    /\ agent.stuck_count < MaxStuckCount
    /\ \E o \in decide_from_sensors(agent, sd) :
          /\ agent' = o.a
          /\ ret' = o.out
    /\ sensor_data' = sd
    /\ call' = [fn |-> "decide_from_sensors", shape |-> "sensor", nships |-> 0]
    /\ raised_inside' = FALSE
    /\ UNCHANGED <<access, tick, worldVars>>

CallDecide(gs) ==
    /\ agent.stuck_count < MaxStuckCount
    /\ \E o \in decide(agent, gs) :
          /\ agent' = o.a
          /\ ret' = o.out
          /\ raised_inside' = o.exc
    /\ sensor_data' = gs.sensor
    /\ call' = [fn |-> "decide", shape |-> gs.shape, nships |-> gs.nships]
    /\ UNCHANGED <<access, tick, historyVars, worldVars>>

Positions == { <<0, 0>>, <<3, 0>>, <<3, 4>> }

\* what the stuck detector is fed: data with and without a position
\* attribute, with and without a position key
StuckInputs ==
    { Sensor(k, p, FALSE, "missing", 0, <<>>) :
         k \in {"dict", "obj"}, p \in Positions }
    \cup { Sensor("dict", NoPos, FALSE, "missing", 0, <<>>), NoSensor }

EnemyAngles == {-100, -25, -12, 0, 4, 17}

Enemies == { RadarObj("enemy", d, a) : d \in {40, 70, 100, 300}, a \in EnemyAngles }

Coins == { RadarObj("coin", d, a) : d \in {30, 200}, a \in {-95, 10} }

\* enemies listed together with a second object
PairedEnemies == { e \in Enemies : e.angle = 4 }

RadarLists ==
    { <<>>, << RadarObj("other", 60, 0) >> }
    \cup { <<o>> : o \in Enemies \cup Coins }
    \cup { <<e, RadarObj("coin", 30, 10)>> : e \in PairedEnemies }
    \cup { <<RadarObj("coin", 200, -95), e>> : e \in PairedEnemies }
    \cup { <<e, RadarObj("enemy", 70, -100)>> : e \in PairedEnemies }

\* what server.sense returns when it completes: a plain dict, without a
\* hit the distance is None
SenseResults ==
    { Sensor("dict", NoPos, FALSE, "null", 0, r) : r \in RadarLists }
    \cup { Sensor("dict", NoPos, TRUE, "num", d, r) :
              d \in {10, 25, 40}, r \in { <<>>, <<RadarObj("enemy", 40, 4)>> } }

\* other arguments a caller can pass: a hit at or beyond 50, a hit with a
\* null or missing distance, a radar entry without a type, no data
OtherInputs ==
    { Sensor("dict", NoPos, TRUE, lk, 60, <<RadarObj("coin", 30, 10)>>) :
         lk \in {"num", "null", "missing"} }
    \cup { Sensor("dict", NoPos, FALSE, "null", 0,
                  <<RadarObj("enemy", 40, 4), RadarObj("nokey", 0, 0)>>),
           NoSensor }

PolicyInputs == SenseResults \cup OtherInputs

DecideInputs ==
    { GameState("sensor", sd, 0) : sd \in OtherInputs \ {NoSensor} }
    \cup { GameState("sensor", Sensor("dict", NoPos, FALSE, "null", 0, r), 0) :
              r \in { <<>>, <<RadarObj("enemy", 40, 4)>>, <<RadarObj("coin", 30, 10)>> } }
    \cup { GameState("legacy", NoSensor, n) : n \in {-1, 0, 1} }
    \cup { GameState("none", NoSensor, 0), GameState("wrongtype", NoSensor, 0) }

FeedSample == \E sd \in StuckInputs : CallDecideFromSensors(sd) /\ FeedStep(sd)

SensorCall ==
    \E sd \in PolicyInputs : CallDecideFromSensors(sd) /\ UNCHANGED historyVars

DecideCall == \E gs \in DecideInputs : CallDecide(gs)

\* states of the agent between two calls: fresh; four seconds later; a
\* second after it saw an enemy; found stuck, before and after a second
AgentStates ==
    { FreshAgent,
      [FreshAgent EXCEPT !.check_age = 2, !.dir_age = 4],
      [FreshAgent EXCEPT !.check_age = 1, !.dir_age = 1, !.mem_type = "enemy",
                         !.mem_angle = -100, !.mem_age = 1] }
    \cup { [FreshAgent EXCEPT !.is_stuck = TRUE, !.stuck_count = StuckThreshold,
                              !.position = <<0, 0>>, !.escape_direction = -1,
                              !.current_rotation = -200, !.dir_age = 4,
                              !.check_age = c] : c \in {0, 2} }

\* one call of the policy on sensor data, the first of this run
CommandFromSensors ==
    /\ call = NoCall
    /\ \E sd \in StuckInputs \cup PolicyInputs : CallDecideFromSensors(sd)
    /\ UNCHANGED historyVars

\* one call of decide, the first of this run
CommandFromDecide == call = NoCall /\ DecideCall

AgentInit ==
    /\ agent = FreshAgent
    /\ sensor_data = NoSensor
    /\ ret = NoReturn
    /\ call = NoCall
    /\ raised_inside = FALSE
    /\ tick = NoTick
    /\ h_adv = FALSE
    /\ h_cnt = 0
    /\ h_low = 0
    /\ h_far = FALSE
    /\ h_broken = FALSE
    /\ h_prev = NoPos
    /\ low_run = 0

----------------------------------------------------------------------------
(* Agent control in the main loop (engine.py main, get_agent_actions) *)

\* server.py /decide: sense, then the policy; any exception gives the
\* neutral command.  The JSON encoding of the three values is exact.
ServerDecide(a) ==
    UNION { { [a |-> o.a,
               out |-> IF o.out.kind = "raise" THEN NeutralCommand ELSE o.out] :
                 o \in decide_from_sensors(a, sd) } : sd \in SenseResults }

\* DummyAgent(ship_index=0).decide({"ships": [player]}, walls)
LocalFallback == { o.out : o \in decide(FreshAgent, GameState("legacy", NoSensor, 1)) }

\* a response body that parses as JSON but is no command: {} or null or []
WrongShape == [kind |-> "json"]

\* how the POST to /decide/ can end
Outcomes == {"ok", "timeout", "refused", "http_error", "bad_json", "wrong_shape"}

\* get_agent_actions: the set of [a: the server's agent, out: returned value].
\* A request that timed out may still have been served.
get_agent_actions(acc, a, outcome) ==
    IF ~acc
    THEN { [a |-> a, out |-> c] : c \in LocalFallback }
    ELSE IF outcome = "ok"
    THEN ServerDecide(a)
    ELSE IF outcome = "wrong_shape"
    THEN { [a |-> a, out |-> WrongShape] }
    ELSE IF outcome = "timeout"
    THEN { [a |-> a2, out |-> c] :
              a2 \in {a} \cup { o.a : o \in ServerDecide(a) }, c \in LocalFallback }
    ELSE { [a |-> a, out |-> c] : c \in LocalFallback }

\* main, agent mode: actions["rotate"], actions["thrust"], actions["shoot"]
\* are applied to ship 0; a value without them raises in the loop itself
ApplyActions(outcome, actions) ==
    IF actions.kind = "cmd"
    THEN [outcome |-> outcome, crashed |-> FALSE, rotate |-> actions.rotate,
          thrust |-> actions.thrust, shoot |-> actions.shoot]
    ELSE [outcome |-> outcome, crashed |-> TRUE,
          rotate |-> 0, thrust |-> 0, shoot |-> FALSE]

AgentTick(outcome) ==
    /\ ~tick.crashed
    /\ agent.stuck_count < MaxStuckCount
    /\ \E o \in get_agent_actions(access, agent, outcome) :
          /\ agent' = o.a
          /\ ret' = o.out
          /\ tick' = ApplyActions(outcome, o.out)
    /\ call' = [fn |-> "get_agent_actions", shape |-> "legacy", nships |-> 1]
    /\ UNCHANGED <<sensor_data, raised_inside, access, historyVars, worldVars>>

ControlTick == \E outcome \in Outcomes : AgentTick(outcome)

----------------------------------------------------------------------------
(* Enemy patrol machine (engine.py patrol_movement).  Angles are in        *)
(* hundredths of a degree, thrust in hundredths.                           *)

PATROL_STATE_FORWARD == 0

PATROL_STATE_TURNING == 1

PATROL_STATE_WALL_AVOID == 2

ForwardPeriod == 180

AdjustPeriod == 60

TurnTimeout == 120

TurnDone == 500

MaxTurnStep == 200

ReversePeriod == 15

ClearPeriod == 30

AvoidTimeout == 90

MaxPatrolTimer == 185

\* SpaceObject.__init__: the patrol fields; rot and thr are what the last
\* patrol tick passed to rotate and thrust (thr "none": no thrust call)
FreshEnemy ==
    [patrol_state |-> PATROL_STATE_FORWARD, patrol_timer |-> 0,
     patrol_turn_target |-> 0, patrol_direction |-> 1,
     rot |-> 0, thr |-> 0]

\* random.choice([-1, 1]) * random.randint(70, 110)
TurnTargets == { s * d * 100 : s \in {-1, 1}, d \in {70, 110} }

\* random.uniform(-2, 2)
Adjustments == {-200, 200}

\* min(2.0, abs(patrol_turn_target) * 0.1)
turn_amount(target) == Min(MaxTurnStep, Abs(target) \div 10)

\* wall avoidance takes priority (both FORWARD and TURNING end with it)
WallPriority(e, wall_ahead) ==
    IF wall_ahead
    THEN [e EXCEPT !.patrol_state = PATROL_STATE_WALL_AVOID, !.patrol_timer = 0]
    ELSE e

\* the FORWARD branch looking at the wall only when no turn was drawn
PatrolForwardTurnFirst(e, wall_ahead, draw) ==
    LET adjusted == IF e.patrol_timer % AdjustPeriod = 0
                    THEN { [e EXCEPT !.rot = r, !.thr = 20] : r \in Adjustments }
                    ELSE { [e EXCEPT !.rot = 0, !.thr = 20] }
        turned(a) == IF a.patrol_timer > ForwardPeriod /\ draw
                     THEN { [a EXCEPT !.patrol_state = PATROL_STATE_TURNING,
                                      !.patrol_timer = 0,
                                      !.patrol_turn_target = t,
                                      !.patrol_direction = IF t > 0 THEN 1 ELSE -1] :
                               t \in TurnTargets }
                     ELSE { WallPriority(a, wall_ahead) }
    IN UNION { turned(a) : a \in adjusted }

\* the FORWARD branch: the set of outcomes over the random draws
PatrolForward(e, wall_ahead, draw) ==
    LET adjusted == IF e.patrol_timer % AdjustPeriod = 0
                    THEN { [e EXCEPT !.rot = r, !.thr = 20] : r \in Adjustments }
                    ELSE { [e EXCEPT !.rot = 0, !.thr = 20] }
        turned(a) == IF a.patrol_timer > ForwardPeriod /\ draw
                     THEN { [a EXCEPT !.patrol_state = PATROL_STATE_TURNING,
                                      !.patrol_timer = 0,
                                      !.patrol_turn_target = t,
                                      !.patrol_direction = IF t > 0 THEN 1 ELSE -1] :
                               t \in TurnTargets }
                     ELSE { a }
    IN { WallPriority(b, wall_ahead) : b \in UNION { turned(a) : a \in adjusted } }


\* the TURNING branch without its timeout
PatrolTurningNoTimeout(e, wall_ahead) ==
    LET amount == turn_amount(e.patrol_turn_target)
        a == [e EXCEPT !.rot = amount * e.patrol_direction,
                       !.patrol_turn_target = @ - amount * e.patrol_direction,
                       !.thr = 10]
        b == IF Abs(a.patrol_turn_target) < TurnDone
             THEN [a EXCEPT !.patrol_state = PATROL_STATE_FORWARD, !.patrol_timer = 0]
             ELSE a
    IN { WallPriority(b, wall_ahead) }

\* the TURNING branch
PatrolTurning(e, wall_ahead) ==
    LET amount == turn_amount(e.patrol_turn_target)
        a == [e EXCEPT !.rot = amount * e.patrol_direction,
                       !.patrol_turn_target = @ - amount * e.patrol_direction,
                       !.thr = 10]
        b == IF Abs(a.patrol_turn_target) < TurnDone \/ a.patrol_timer > TurnTimeout
             THEN [a EXCEPT !.patrol_state = PATROL_STATE_FORWARD, !.patrol_timer = 0]
             ELSE a
    IN { WallPriority(b, wall_ahead) }

\* the WALL_AVOID branch
PatrolWallAvoid(e, wall_ahead) ==
    LET a == [e EXCEPT !.rot = 400 * e.patrol_direction,
                       !.thr = IF e.patrol_timer < ReversePeriod THEN -20 ELSE 0]
        b == IF a.patrol_timer > ClearPeriod /\ ~wall_ahead
             THEN [a EXCEPT !.patrol_state = PATROL_STATE_FORWARD,
                            !.patrol_timer = 0,
                            !.patrol_direction = -@]
             ELSE a
        c == IF b.patrol_timer > AvoidTimeout
             THEN [b EXCEPT !.patrol_state = PATROL_STATE_TURNING,
                            !.patrol_timer = 0,
                            !.patrol_turn_target = 18000]
             ELSE b
    IN { c }

\* the FORWARD branch turning whenever the timer allows, whatever the draw
PatrolAlwaysTurns(e, wall_ahead, draw) ==
    LET e1 == [e EXCEPT !.patrol_timer = @ + 1]
    IN IF e.patrol_state = PATROL_STATE_FORWARD
       THEN PatrolForward(e1, wall_ahead, TRUE)
       ELSE IF e.patrol_state = PATROL_STATE_TURNING
       THEN PatrolTurning(e1, wall_ahead)
       ELSE PatrolWallAvoid(e1, wall_ahead)

\* patrol_movement: the set of enemies one tick can produce.  wall_ahead is
\* the reading of the 80-unit look-ahead probe, draw is random() < 0.01.
patrol_movement(e, wall_ahead, draw) ==
    LET e1 == [e EXCEPT !.patrol_timer = @ + 1]
    IN IF e.patrol_state = PATROL_STATE_FORWARD
       THEN PatrolForward(e1, wall_ahead, draw)
       ELSE IF e.patrol_state = PATROL_STATE_TURNING
       THEN PatrolTurning(e1, wall_ahead)
       ELSE PatrolWallAvoid(e1, wall_ahead)

\* the turn draw is made, and succeeds, in this tick
DrawSucceeds(e, draw) ==
    /\ e.patrol_state = PATROL_STATE_FORWARD
    /\ e.patrol_timer + 1 > ForwardPeriod
    /\ draw

PatrolTick(wall_ahead, draw) ==
    /\ enemy.patrol_timer < MaxPatrolTimer
    /\ enemy' \in patrol_movement(enemy, wall_ahead, draw)
    /\ p_quiet' = /\ \/ p_quiet
                     \/ /\ enemy.patrol_state = PATROL_STATE_FORWARD
                        /\ enemy.patrol_timer < ForwardPeriod
                  /\ ~wall_ahead
                  /\ ~DrawSucceeds(enemy, draw)
    /\ UNCHANGED <<agentVars, cacheVars, netVars, engineVars, senseVars>>

\* a tick in which the probe sees no wall, and one in which it does
PatrolClear == \E draw \in BOOLEAN : PatrolTick(FALSE, draw)

PatrolWall == \E draw \in BOOLEAN : PatrolTick(TRUE, draw)

PatrolInit ==
    /\ enemy = FreshEnemy
    /\ p_quiet = TRUE

----------------------------------------------------------------------------
(* The state cache of the server (server.py update_state, get_game_state). *)
(* A JSON number is [t: "int" or "float", v: its value in tenths]; a JSON   *)
(* value that is no number has t = "str".                                   *)

I(n) == [t |-> "int", v |-> n * 10]

F(tenths) == [t |-> "float", v |-> tenths]

NotANumber == [t |-> "str", v |-> 0]

IsNumber(n) == n.t \in {"int", "float"}

Integral(n) == n.v % 10 = 0

\* pydantic: a float field takes an int or a float
ToFloat(n) == [t |-> "float", v |-> n.v]

\* pydantic: an int field; a fraction, where accepted, is cut off
ToInt(n) == [t |-> "int", v |-> (n.v \div 10) * 10]

\* Python ==, which compares 5 and 5.0 equal
NumEq(a, b) == a.v = b.v

Ship(x, y, angle) == [x |-> x, y |-> y, angle |-> angle]

Bullet(x, y, angle, lifespan, owner) ==
    [x |-> x, y |-> y, angle |-> angle, lifespan |-> lifespan, owner |-> owner]

Coin(x, y) == [x |-> x, y |-> y]

StateKeys == {"ships", "bullets", "coins", "score"}

\* a JSON body: the keys it has and the lists under them
Body(keys, sh, bu, co, sc) ==
    [keys |-> keys, ships |-> sh, bullets |-> bu, coins |-> co, score |-> sc]

\* server.py:105: the cache before any POST
DefaultGameState == Body(StateKeys, <<>>, <<>>, <<>>, <<>>)

\* GameState(BaseModel): every key present, every field a number
Validates(S) ==
    LET okShip(h) == IsNumber(h.x) /\ IsNumber(h.y) /\ IsNumber(h.angle)
        okBullet(b) == /\ IsNumber(b.x) /\ IsNumber(b.y) /\ IsNumber(b.angle)
                       /\ IsNumber(b.lifespan) /\ IsNumber(b.owner)
        okCoin(c) == IsNumber(c.x) /\ IsNumber(c.y)
    IN /\ StateKeys \subseteq S.keys
       /\ \A i \in 1..Len(S.ships) : okShip(S.ships[i])
       /\ \A i \in 1..Len(S.bullets) : okBullet(S.bullets[i])
       /\ \A i \in 1..Len(S.coins) : okCoin(S.coins[i])
       /\ \A i \in 1..Len(S.score) : IsNumber(S.score[i])

\* the int fields (lifespan, owner, score) hold whole numbers
WholeInts(S) ==
    LET okBullet(b) == Integral(b.lifespan) /\ Integral(b.owner)
    IN /\ \A i \in 1..Len(S.bullets) : okBullet(S.bullets[i])
       /\ \A i \in 1..Len(S.score) : Integral(S.score[i])

\* state.dict(): the validated model as a dict of the four keys
StateDict(S) ==
    LET ship(h) == Ship(ToFloat(h.x), ToFloat(h.y), ToFloat(h.angle))
        bullet(b) == Bullet(ToFloat(b.x), ToFloat(b.y), ToFloat(b.angle),
                            ToInt(b.lifespan), ToInt(b.owner))
        coin(c) == Coin(ToFloat(c.x), ToFloat(c.y))
    IN Body(StateKeys,
            [i \in 1..Len(S.ships) |-> ship(S.ships[i])],
            [i \in 1..Len(S.bullets) |-> bullet(S.bullets[i])],
            [i \in 1..Len(S.coins) |-> coin(S.coins[i])],
            [i \in 1..Len(S.score) |-> ToInt(S.score[i])])

\* update_state that answers success without storing
UpdateStateNoStore(cache, S) ==
    IF ~Validates(S)
    THEN { [cache |-> cache, status |-> 422] }
    ELSE { [cache |-> cache, status |-> 200] }

\* POST /update_state: the set of [cache, status].  A body that fails
\* validation is answered 422 before the handler runs; a fraction in an int
\* field is refused or cut off, depending on the pydantic version.
update_state(cache, S) ==
    IF ~Validates(S)
    THEN { [cache |-> cache, status |-> 422] }
    ELSE IF ~WholeInts(S)
    THEN { [cache |-> cache, status |-> 422],
           [cache |-> StateDict(S), status |-> 200] }
    ELSE { [cache |-> StateDict(S), status |-> 200] }

\* GET /game_state
get_game_state(cache) == cache

NoReply == Body({}, <<>>, <<>>, <<>>, <<>>)

NoPost == [state |-> NoReply, status |-> 0]

\* field-for-field equality of two states
SameState(a, b) ==
    LET sameShip(i) == /\ NumEq(a.ships[i].x, b.ships[i].x)
                       /\ NumEq(a.ships[i].y, b.ships[i].y)
                       /\ NumEq(a.ships[i].angle, b.ships[i].angle)
        sameBullet(i) == /\ NumEq(a.bullets[i].x, b.bullets[i].x)
                         /\ NumEq(a.bullets[i].y, b.bullets[i].y)
                         /\ NumEq(a.bullets[i].angle, b.bullets[i].angle)
                         /\ NumEq(a.bullets[i].lifespan, b.bullets[i].lifespan)
                         /\ NumEq(a.bullets[i].owner, b.bullets[i].owner)
        sameCoin(i) == /\ NumEq(a.coins[i].x, b.coins[i].x)
                       /\ NumEq(a.coins[i].y, b.coins[i].y)
    IN /\ Len(a.ships) = Len(b.ships)
       /\ \A i \in 1..Len(a.ships) : sameShip(i)
       /\ Len(a.bullets) = Len(b.bullets)
       /\ \A i \in 1..Len(a.bullets) : sameBullet(i)
       /\ Len(a.coins) = Len(b.coins)
       /\ \A i \in 1..Len(a.coins) : sameCoin(i)
       /\ Len(a.score) = Len(b.score)
       /\ \A i \in 1..Len(a.score) : NumEq(a.score[i], b.score[i])

\* bodies a client can POST: states as the engine builds them (positions
\* int or float), a state with whole floats in int fields, one with an extra
\* key, and bodies the model refuses
ClientStates ==
    { Body(StateKeys, <<>>, <<>>, <<>>, <<I(0), I(0)>>),
      Body(StateKeys, <<Ship(I(100), F(2005), I(0))>>, <<>>,
           <<Coin(I(3), I(4))>>, <<I(1), I(0)>>),
      Body(StateKeys, <<Ship(F(1155), I(200), F(905)), Ship(I(7), I(8), I(359))>>,
           <<Bullet(F(1305), I(200), F(905), I(59), I(0))>>,
           <<>>, <<I(11), I(0)>>),
      Body(StateKeys, <<>>, <<Bullet(I(1), I(2), I(3), F(600), F(10))>>,
           <<>>, <<F(20), I(0)>>),
      Body(StateKeys \cup {"walls"}, <<Ship(I(1), I(1), I(1))>>, <<>>, <<>>,
           <<I(2), I(2)>>),
      Body(StateKeys \ {"score"}, <<Ship(I(1), I(1), I(1))>>, <<>>, <<>>, <<>>),
      Body(StateKeys, <<Ship(NotANumber, I(1), I(1))>>, <<>>, <<>>, <<I(0), I(0)>>),
      Body(StateKeys, <<>>, <<Bullet(I(1), I(2), I(3), F(35), I(0))>>,
           <<>>, <<I(0), I(0)>>) }

PostState(S) ==
    /\ \E o \in update_state(game_state, S) :
          /\ game_state' = o.cache
          /\ posted' = [state |-> S, status |-> o.status]
          /\ h_rt' = IF o.status = 200 THEN "stored" ELSE "none"
    /\ UNCHANGED <<reply, agentVars, patrolVars, netVars, engineVars, senseVars>>

ClientPost == \E S \in ClientStates : PostState(S)

QueryState ==
    /\ reply' = get_game_state(game_state)
    /\ h_rt' = IF h_rt \in {"stored", "roundtrip"} THEN "roundtrip" ELSE "none"
    /\ <<reply, h_rt>>' # <<reply, h_rt>>
    /\ UNCHANGED <<game_state, posted, agentVars, patrolVars, netVars, engineVars, senseVars>>

CacheInit ==
    /\ game_state = DefaultGameState
    /\ reply = NoReply
    /\ posted = NoPost
    /\ h_rt = "none"

----------------------------------------------------------------------------
(* State publication (engine.py update_state_on_server).  Time is counted  *)
(* in periods of state_update_min_period (0.1 s).                          *)

MaxFrames == 3

\* the 0.5 s timeout of a send, in periods
TimeoutPeriods == 5

NoTime == -1

\* what the engine holds after f updates: the ship has moved, a bullet is
\* in flight on odd frames, the score has grown
NetState(f) ==
    Body(StateKeys,
         <<Ship(F(1000 + 15 * f), I(200), I(0))>>,
         IF f % 2 = 1
         THEN <<Bullet(F(1150 + 150 * f), I(200), I(0), I(60 - f), I(0))>>
         ELSE <<>>,
         <<Coin(I(3), I(4))>>,
         <<I(f), I(0)>>)

FreshPublisher == [frame |-> 0, last_state_update_time |-> NoTime, published |-> 0]

\* the mutant of MayPublish without the rate limit
MayPublishConnected(acc, pb) == acc

\* update_state_on_server's guard: connected, and no publish less than a
\* period ago (last_state_update_time holds the periods since, 0 or 1)
MayPublish(acc, pb) ==
    /\ acc
    /\ ~(pb.last_state_update_time # NoTime /\ pb.last_state_update_time < 1)

\* engine.update: the state changes, then update_state_on_server builds the
\* payload and starts a thread for it
EngineUpdate ==
    /\ publisher.frame < MaxFrames
    /\ LET f == publisher.frame + 1
           n == publisher.published + 1
       IN IF MayPublish(access, publisher)
          THEN /\ publisher' = [frame |-> f, last_state_update_time |-> 0,
                                published |-> n]
               /\ inflight' = inflight \cup
                     { [id |-> n, payload |-> NetState(f), sent |-> FALSE, age |-> 0] }
               /\ h_gap' = 0
          ELSE /\ publisher' = [publisher EXCEPT !.frame = f]
               /\ UNCHANGED <<inflight, h_gap>>
    /\ UNCHANGED <<cache_src, h_lost, access, agentVars, patrolVars, cacheVars, engineVars, senseVars>>

\* send_state reaches requests.post: the payload is encoded; its score is
\* the engine's own list, read now
Serialise(m) ==
    /\ ~m.sent
    /\ inflight' = (inflight \ {m}) \cup
          { [m EXCEPT !.sent = TRUE,
                      !.payload.score = NetState(publisher.frame).score] }
    /\ UNCHANGED <<publisher, cache_src, h_lost, h_gap, agentVars, patrolVars, cacheVars, engineVars, senseVars>>

\* the server handles the POST of one thread
Deliver(m) ==
    /\ m.sent
    /\ \E o \in update_state(game_state, m.payload) :
          /\ game_state' = o.cache
          /\ posted' = [state |-> m.payload, status |-> o.status]
          /\ h_rt' = IF o.status = 200 THEN "stored" ELSE "none"
          /\ cache_src' = IF o.status = 200 THEN m.id ELSE cache_src
    /\ inflight' = inflight \ {m}
    /\ UNCHANGED <<publisher, h_lost, h_gap, reply, agentVars, patrolVars, engineVars, senseVars>>

\* the POST of one thread fails or times out: the exception is printed
SendFails(m) ==
    /\ inflight' = inflight \ {m}
    /\ h_lost' = TRUE
    /\ UNCHANGED <<publisher, cache_src, h_gap, agentVars, patrolVars, cacheVars, engineVars, senseVars>>

\* the longest gap between publishes that is counted
MaxGap == 2

\* a period passes; a send is at most TimeoutPeriods old
NetAdvance ==
    /\ \A m \in inflight : m.age < TimeoutPeriods
    /\ inflight # {} \/ publisher.last_state_update_time = 0
    /\ inflight' = { [m EXCEPT !.age = @ + 1] : m \in inflight }
    /\ publisher' = [publisher EXCEPT !.last_state_update_time =
                        IF @ = NoTime THEN NoTime ELSE 1]
    /\ h_gap' = IF h_gap = NoTime THEN NoTime ELSE Min(h_gap + 1, MaxGap)
    /\ UNCHANGED <<cache_src, h_lost, agentVars, patrolVars, cacheVars, engineVars, senseVars>>

ThreadSerialises == \E m \in inflight : Serialise(m)

ServerReceives == \E m \in inflight : Deliver(m)

ThreadFails == \E m \in inflight : SendFails(m)

NetInit ==
    /\ publisher = FreshPublisher
    /\ h_gap = NoTime
    /\ inflight = {}
    /\ cache_src = 0
    /\ h_lost = FALSE

----------------------------------------------------------------------------
(* The simulation engine (engine.py SpaceObject, Bullet, GameEngine).      *)
(* Lengths and speeds are in hundredths of a unit, angles in whole degrees *)
(* on the axes, so that cos and sin are exact.                             *)

WORLD_WIDTH == 200000

WORLD_HEIGHT == 200000

PlayerMaxSpeed == 800

EnemyMaxSpeed == 300

ShipHalf == 1000

BulletHalf == 300

BulletSpeed == 1500

BulletLifespan == 60

HitRadius == 1500

Damage == 10

KillPoints == 10

FullHp == 100

ChaseThrust == 30

Cos(angle) == IF angle % 360 = 0 THEN 1 ELSE IF angle % 360 = 180 THEN -1 ELSE 0

Sin(angle) == IF angle % 360 = 90 THEN 1 ELSE IF angle % 360 = 270 THEN -1 ELSE 0

Clamp(v, lo, hi) == Max(lo, Min(v, hi))

\* v * 0.99
Friction(v) == IF v >= 0 THEN (v * 99) \div 100 ELSE -(((-v) * 99) \div 100)

\* pygame.Rect keeps whole numbers: a float coordinate loses its fraction
Trunc(v) == IF v >= 0 THEN (v \div 100) * 100 ELSE -(((-v) \div 100) * 100)

Rect(x, y, w, h) == [x |-> Trunc(x), y |-> Trunc(y), w |-> w, h |-> h]

colliderect(a, b) ==
    /\ a.x < b.x + b.w
    /\ b.x < a.x + a.w
    /\ a.y < b.y + b.h
    /\ b.y < a.y + a.h

\* create_labyrinth: the outer walls and the inner walls near the ships
walls ==
    << Rect(5000, 5000, 190000, 2000), Rect(5000, 5000, 2000, 190000),
       Rect(5000, 193000, 190000, 2000), Rect(193000, 5000, 2000, 190000),
       Rect(20000, 20000, 2000, 40000), Rect(60000, 20000, 2000, 40000),
       Rect(30000, 30000, 10000, 2000) >>

\* SpaceObject(x, y, angle, hp): id tells the ships apart (object identity)
SpaceObject(id, x, y, angle, hp) ==
    [id |-> id, x |-> x, y |-> y, vx |-> 0, vy |-> 0, angle |-> angle, hp |-> hp]

ShipRect(s) == Rect(s.x - ShipHalf, s.y - ShipHalf, 2 * ShipHalf, 2 * ShipHalf)

\* the mutant of update_position that keeps a body below the world's
\* width and height
UpdatePositionOpenBounds(s, is_enemy) ==
    LET max_speed == IF is_enemy THEN EnemyMaxSpeed ELSE PlayerMaxSpeed
        vx == Clamp(Friction(s.vx), -max_speed, max_speed)
        vy == Clamp(Friction(s.vy), -max_speed, max_speed)
    IN [s EXCEPT !.vx = vx, !.vy = vy,
                 !.x = Clamp(s.x + vx, 0, WORLD_WIDTH - 1),
                 !.y = Clamp(s.y + vy, 0, WORLD_HEIGHT - 1)]

update_position(s, is_enemy) ==
    LET max_speed == IF is_enemy THEN EnemyMaxSpeed ELSE PlayerMaxSpeed
        vx == Clamp(Friction(s.vx), -max_speed, max_speed)
        vy == Clamp(Friction(s.vy), -max_speed, max_speed)
    IN [s EXCEPT !.vx = vx, !.vy = vy,
                 !.x = Clamp(s.x + vx, 0, WORLD_WIDTH),
                 !.y = Clamp(s.y + vy, 0, WORLD_HEIGHT)]

rotate(s, degrees) == [s EXCEPT !.angle = (@ + degrees) % 360]

thrust(s, amount) ==
    [s EXCEPT !.vx = @ + Cos(s.angle) * amount, !.vy = @ + Sin(s.angle) * amount]

\* one wall of check_wall_collision's loop; ship_rect is the box computed
\* before the loop
BounceOff(s, ship_rect, wall) ==
    IF ~colliderect(ship_rect, wall) THEN s
    ELSE LET a == IF s.x < wall.x
                  THEN [s EXCEPT !.x = wall.x - ShipHalf, !.vx = 0]
                  ELSE IF s.x > wall.x + wall.w
                  THEN [s EXCEPT !.x = wall.x + wall.w + ShipHalf, !.vx = 0]
                  ELSE s
         IN IF a.y < wall.y
            THEN [a EXCEPT !.y = wall.y - ShipHalf, !.vy = 0]
            ELSE IF a.y > wall.y + wall.h
            THEN [a EXCEPT !.y = wall.y + wall.h + ShipHalf, !.vy = 0]
            ELSE a

RECURSIVE BounceLoop(_, _, _, _)
BounceLoop(s, ship_rect, rects, k) ==
    IF k > Len(rects) THEN s
    ELSE BounceLoop(BounceOff(s, ship_rect, rects[k]), ship_rect, rects, k + 1)

\* the mutant of ConcurrentRects that takes the box of every ship of the
\* list, the ship's own too
ConcurrentRectsWithSelf(s, live) == [i \in 1..Len(live) |-> ShipRect(live[i])]

\* the boxes of the other ships of the live list
ConcurrentRects(s, live) ==
    LET others == SelectSeq(live, LAMBDA o : o.id # s.id)
    IN [i \in 1..Len(others) |-> ShipRect(others[i])]

check_wall_collision(s, live) ==
    BounceLoop(s, ShipRect(s), walls \o ConcurrentRects(s, live), 1)

\* history: one step of update, and the ship it acts on (0: none)
Step(ph, id) == [ph |-> ph, ship |-> id]

IndexOf(live, id) == CHOOSE k \in 1..Len(live) : live[k].id = id

\* the mutant of RemoveAt that takes the head of the list away
RemoveHead(q, k) == SubSeq(q, 2, Len(q))

\* list.remove, for the list position of the element
RemoveAt(q, k) == SubSeq(q, 1, k - 1) \o SubSeq(q, k + 1, Len(q))

\* update, the loop over the ships: ids is the copy ships[:] the loop walks,
\* live the list itself; position i of the copy is Python index i - 1.
\* Gives the list after the loop, whether the ship at index 1 was removed,
\* and (history) the steps taken, in order; a "collide" step carries the
\* rectangles check_wall_collision went through.
RECURSIVE ShipLoop(_, _, _, _)
ShipLoop(i, ids, live, died) ==
    IF i > Len(ids) THEN [live |-> live, died |-> died, log |-> <<>>]
    ELSE LET k == IndexOf(live, ids[i])
             is_enemy == (i = 2)
             s == check_wall_collision(update_position(live[k], is_enemy), live)
             moved == << Step("integrate", ids[i]),
                         [ph |-> "collide", ship |-> ids[i],
                          rects |-> walls \o ConcurrentRects(
                                      update_position(live[k], is_enemy), live)] >>
         IN IF s.hp <= 0
            THEN LET r == ShipLoop(i + 1, ids, RemoveAt(live, k), died \/ is_enemy)
                 IN [r EXCEPT !.log = moved \o <<Step("remove", ids[i])>> \o @]
            ELSE LET r == ShipLoop(i + 1, ids, [live EXCEPT ![k] = s], died)
                 IN [r EXCEPT !.log = moved \o @]

\* Bullet(x, y, angle, owner): owner is the index of the firing ship in the
\* list at the moment of the shot, by (history) the firing ship itself
shoot(live, ship_index) ==
    LET ship == live[ship_index + 1]
    IN [x |-> ship.x + Cos(ship.angle) * BulletSpeed,
        y |-> ship.y + Sin(ship.angle) * BulletSpeed,
        angle |-> ship.angle, lifespan |-> BulletLifespan,
        owner |-> ship_index, by |-> ship.id]

\* Bullet.update
BulletUpdate(b) ==
    [b EXCEPT !.x = @ + Cos(b.angle) * BulletSpeed,
              !.y = @ + Sin(b.angle) * BulletSpeed,
              !.lifespan = @ - 1]

is_offscreen(b) ==
    \/ ~(0 <= b.x /\ b.x <= WORLD_WIDTH /\ 0 <= b.y /\ b.y <= WORLD_HEIGHT)
    \/ b.lifespan <= 0

\* math.hypot(dx, dy) < 15
_collides(b, ship) ==
    LET dx == Abs(b.x - ship.x)
        dy == Abs(b.y - ship.y)
    IN /\ dx < HitRadius
       /\ dy < HitRadius
       /\ dx * dx + dy * dy < HitRadius * HitRadius

\* the list positions of the ships a bullet hits
ShipsHit(b, live) ==
    { j \in 1..Len(live) : j - 1 # b.owner /\ _collides(b, live[j]) }

HitsWall(b) ==
    \E w \in 1..Len(walls) :
        colliderect(Rect(b.x - BulletHalf, b.y - BulletHalf,
                         2 * BulletHalf, 2 * BulletHalf), walls[w])

\* history: the steps one bullet takes in the loop over the ships, from
\* list position j on: damage for every ship hit, then the score when
\* that ship is at index 1 and dead
RECURSIVE HitSteps(_, _, _)
HitSteps(j, hits, live) ==
    IF j > Len(live) THEN <<>>
    ELSE (IF j \in hits
          THEN <<Step("damage", live[j].id)>>
               \o (IF j = 2 /\ live[j].hp <= 0 THEN <<Step("score", 0)>> ELSE <<>>)
          ELSE <<>>) \o HitSteps(j + 1, hits, live)

\* update, the loop over the moved bullets
RECURSIVE BulletLoop(_, _, _, _, _, _)
BulletLoop(k, bs, live, sc, kept, selfhit) ==
    IF k > Len(bs)
    THEN [ships |-> live, score |-> sc, bullets |-> kept, selfhit |-> selfhit,
          log |-> <<>>]
    ELSE LET b == bs[k]
             hits == ShipsHit(b, live)
             live2 == [j \in 1..Len(live) |->
                          IF j \in hits THEN [live[j] EXCEPT !.hp = @ - Damage]
                          ELSE live[j]]
             sc2 == IF 2 \in hits /\ live2[2].hp <= 0
                    THEN [sc EXCEPT ![1] = @ + KillPoints] ELSE sc
             hit == HitsWall(b) \/ hits # {}
             kept2 == IF ~hit /\ b.lifespan > 0 THEN Append(kept, b) ELSE kept
             r == BulletLoop(k + 1, bs, live2, sc2, kept2,
                             selfhit \/ \E j \in hits : live[j].id = b.by)
         IN [r EXCEPT !.log = HitSteps(1, hits, live2) \o @]

\* GameEngine.update; spawn gives position and angle of the two new enemies
update(live, bs, sc, spawn, nid) ==
    LET ids == [i \in 1..Len(live) |-> live[i].id]
        moved == ShipLoop(1, ids, live, FALSE)
        new_ships == IF moved.died
                     THEN [n \in 1..2 |->
                             SpaceObject(nid + n - 1, spawn[n].x, spawn[n].y,
                                          spawn[n].angle, FullHp)]
                     ELSE <<>>
        flown == [k \in 1..Len(bs) |-> BulletUpdate(bs[k])]
        r == BulletLoop(1, flown, moved.live \o new_ships, sc, <<>>, FALSE)
    IN [ships |-> r.ships, score |-> r.score,
        bullets |-> SelectSeq(r.bullets, LAMBDA b : ~is_offscreen(b)),
        nid |-> nid + Len(new_ships), selfhit |-> r.selfhit,
        log |-> moved.log \o r.log \o <<Step("publish", 0)>>]

MinCoins == 10

StartCoins == 20

\* Coin(x, y): its rect is 16 wide and 20 high
CoinAt(x, y) == [x |-> x, y |-> y, rect |-> Rect(x - 800, y - 1000, 1600, 2000)]

\* the places random.randint offers a coin: on the player of SessionStart,
\* far from every ship, and inside the wall at (300, 300)
CoinSpots == { CoinAt(52000, 28900), CoinAt(150000, 30000), CoinAt(35000, 31000) }

\* generate_coins(num_coins, walls): the lists it can return.  A place in a
\* wall is never taken, and a coin whose hundred tries all fail is left out.
generate_coins(num_coins) ==
    LET valid == { c \in CoinSpots :
                     \A w \in 1..Len(walls) : ~colliderect(c.rect, walls[w]) }
    IN UNION { [1..n -> valid] : n \in 0..num_coins }

\* the mutant of NeedsCoin that lets the count fall to nine
NeedsCoinBelowNine(cs) == Len(cs) < MinCoins - 1

\* main: len(engine.coins) < 10
NeedsCoin(cs) == Len(cs) < MinCoins

\* main, the loop over the copy engine.coins[:]: the coin lists, scores and
\* (history) failed generations the loop can end with.  remove takes the
\* first coin equal to the one at hand: coins at one place are met in list
\* order, so that is the coin at hand.
RECURSIVE CoinLoop(_, _, _, _, _, _)
CoinLoop(i, copy, player_rect, cs, sc, failed) ==
    IF i > Len(copy) THEN { [coins |-> cs, score |-> sc, failed |-> failed] }
    ELSE IF ~colliderect(copy[i].rect, player_rect)
    THEN CoinLoop(i + 1, copy, player_rect, cs, sc, failed)
    ELSE LET at == CHOOSE k \in 1..Len(cs) :
                      /\ cs[k] = copy[i]
                      /\ \A j \in 1..(k - 1) : cs[j] # copy[i]
             cs1 == RemoveAt(cs, at)
             sc1 == [sc EXCEPT ![1] = @ + 1]
         IN IF NeedsCoin(cs1)
            THEN UNION { CoinLoop(i + 1, copy, player_rect, cs1 \o new_coin, sc1,
                                  failed \/ new_coin = <<>>) :
                            new_coin \in generate_coins(1) }
            ELSE CoinLoop(i + 1, copy, player_rect, cs1, sc1, failed)

MaxNear == 13

\* the coins of a session no ship of which stands on a coin
FarLayout == [n \in 1..StartCoins |-> CoinAt(150000, 30000)]

\* generate_coins(20, walls) at the start of a session: near of the coins,
\* up to MaxNear, lie on the player, the others far from every ship
StartLayouts ==
    { [n \in 1..StartCoins |->
         IF n <= near THEN CoinAt(52000, 28900) ELSE CoinAt(150000, 30000)] :
            near \in 0..MaxNear }

MaxTicks == 3

MaxBullets == 3

MaxRounds == 2

\* main, the enemy loop: every ship after the player, dead or alive, runs
\* chase_and_shoot; with the player in sight and dead ahead that is
\* chase_player's rotate by a tenth of the angle difference 0, its thrust
\* and, for the ships in shooters, a shot.  acts (history) lists the ships
\* that ran it, with their hp at that moment and whether they fired.
RECURSIVE EnemyLoop(_, _, _, _)
EnemyLoop(i, live, bs, shooters) ==
    IF i > Len(live) THEN [ships |-> live, bullets |-> bs, acts |-> <<>>]
    ELSE LET live2 == [live EXCEPT ![i] = thrust(rotate(@, 0), ChaseThrust)]
             bs2 == IF i \in shooters THEN Append(bs, shoot(live2, i - 1)) ELSE bs
             r == EnemyLoop(i + 1, live2, bs2, shooters)
         IN [r EXCEPT !.acts = << [ship |-> live[i].id, hp |-> live[i].hp,
                                   shot |-> i \in shooters] >> \o @]

\* generate_valid_position and random.randint(0, 360) for a new enemy; they
\* are drawn only in an update that removes the ship at index 1
SpawnChoices ==
    IF Len(ships) >= 2 /\ ships[2].hp <= 0
    THEN { [x |-> 40000, y |-> 40000, angle |-> 360],
           [x |-> 38500, y |-> 27500, angle |-> 90],
           [x |-> 42000, y |-> 28900, angle |-> 90] }
    ELSE { [x |-> 40000, y |-> 40000, angle |-> 360] }

\* one iteration of the main loop: the game-over check, the coins the
\* player stands on, the player's keys (fire or nothing), the enemy loop,
\* engine.update.  No server is connected, so update_state_on_server
\* returns at once.
Frame(pshoot, shooters, spawn) ==
    /\ frames < MaxTicks
    /\ Len(ships) > 0
    /\ ships[1].hp > 0
    /\ Len(bullets) + Cardinality(shooters) + (IF pshoot THEN 1 ELSE 0) <= MaxBullets
    /\ \E c \in CoinLoop(1, engine_coins,
                        Rect(ships[1].x - 2000, ships[1].y - 2000, 4000, 4000),
                        engine_coins, score, FALSE) :
       LET bs1 == IF pshoot THEN Append(bullets, shoot(ships, 0)) ELSE bullets
           e == EnemyLoop(2, ships, bs1, shooters)
           u == update(e.ships, e.bullets, c.score, spawn, next_id)
       IN /\ ships' = u.ships
          /\ bullets' = u.bullets
          /\ score' = u.score
          /\ next_id' = u.nid
          /\ h_selfhit' = (h_selfhit \/ u.selfhit)
          /\ h_phases' = u.log
          /\ engine_coins' = c.coins
          /\ h_nocoin' = (h_nocoin \/ c.failed)
          /\ h_acts' = e.acts
    /\ frames' = frames + 1
    /\ UNCHANGED <<agentVars, patrolVars, cacheVars, netVars, senseVars>>

FrameIdle ==
    \E shooters \in SUBSET (2..Len(ships)) :
       \E a, b \in SpawnChoices : Frame(FALSE, shooters, <<a, b>>)

FramePlayerFires ==
    \E shooters \in SUBSET (2..Len(ships)) :
       \E a, b \in SpawnChoices : Frame(TRUE, shooters, <<a, b>>)

\* GameEngine.__init__: the player and one enemy, clear of the walls
SessionStart ==
    [ships |-> << SpaceObject(1, 52000, 28900, 0, FullHp),
                  SpaceObject(2, 56000, 28900, 180, FullHp) >>,
     score |-> <<0, 0>>, next_id |-> 3]

\* a session after its first kill: the player, and the two enemies that
\* replaced the first one.  The enemy at index 1 has taken nine hits or
\* none; the enemy at index 2 stands still, or has chased the player along
\* the top of the wall at (300, 300) up to its speed limit.  Or the two
\* enemies stand the other way round in the list, the one in front of the
\* player, at index 2, having taken nine hits.  Or the player has taken
\* nine hits.
MidSession ==
    { [ships |-> << SpaceObject(1, 52000, 28900, 0, FullHp),
                    SpaceObject(3, 56000, 28900, 180, hp),
                    [SpaceObject(4, 38500, 28900, 0, FullHp) EXCEPT
                        !.vx = v[1], !.vy = v[2]] >>,
       score |-> <<10, 0>>, next_id |-> 5] :
         hp \in {Damage, FullHp}, v \in { <<0, 0>>, <<800, 150>> } }
    \cup { [ships |-> << SpaceObject(1, 52000, 28900, 0, FullHp),
                         SpaceObject(3, 38500, 28900, 0, FullHp),
                         SpaceObject(4, 56000, 28900, 180, Damage) >>,
             score |-> <<10, 0>>, next_id |-> 5],
           [ships |-> << SpaceObject(1, 52000, 28900, 0, Damage),
                         SpaceObject(3, 56000, 28900, 180, FullHp),
                         SpaceObject(4, 38500, 28900, 0, FullHp) >>,
             score |-> <<10, 0>>, next_id |-> 5] }

PatrolThrust == 20

MaxBorder == 6

\* main, the enemy loop with the player out of every enemy's sight:
\* chase_and_shoot is patrol_movement, which in FORWARD with no wall 80
\* ahead thrusts by 0.2 along the heading; the course adjustment drawn from
\* random.uniform is 0 and random() gives no turn.  cos and sin of the
\* headings 185 and 195 are in hundredths, rounded.
RECURSIVE PatrolLoop(_, _)
PatrolLoop(i, live) ==
    IF i > Len(live) THEN [ships |-> live, acts |-> <<>>]
    ELSE LET s == live[i]
             cos == IF s.angle = 195 THEN -97
                    ELSE IF s.angle = 185 THEN -100 ELSE 100 * Cos(s.angle)
             sin == IF s.angle = 195 THEN -26
                    ELSE IF s.angle = 185 THEN -9 ELSE 100 * Sin(s.angle)
             r == PatrolLoop(i + 1,
                     [live EXCEPT ![i] =
                        [s EXCEPT !.vx = @ + Trunc(cos * PatrolThrust) \div 100,
                                  !.vy = @ + Trunc(sin * PatrolThrust) \div 100]])
         IN [r EXCEPT !.acts = << [ship |-> s.id, hp |-> s.hp, shot |-> FALSE] >> \o @]

\* one iteration of the main loop with no enemy seeing the player: the
\* game-over check, the coins, the player's keys (fire or nothing), the
\* enemy loop, engine.update
FrameOutOfSight(pshoot) ==
    /\ frames < MaxBorder
    /\ Len(ships) > 0
    /\ ships[1].hp > 0
    /\ Len(bullets) + (IF pshoot THEN 1 ELSE 0) <= MaxBullets
    /\ \E c \in CoinLoop(1, engine_coins,
                        Rect(ships[1].x - 2000, ships[1].y - 2000, 4000, 4000),
                        engine_coins, score, FALSE) :
       \E a, b \in SpawnChoices :
       LET bs1 == IF pshoot THEN Append(bullets, shoot(ships, 0)) ELSE bullets
           e == PatrolLoop(2, ships)
           u == update(e.ships, bs1, c.score, <<a, b>>, next_id)
       IN /\ ships' = u.ships
          /\ bullets' = u.bullets
          /\ score' = u.score
          /\ next_id' = u.nid
          /\ h_selfhit' = (h_selfhit \/ u.selfhit)
          /\ h_phases' = u.log
          /\ engine_coins' = c.coins
          /\ h_nocoin' = (h_nocoin \/ c.failed)
          /\ h_acts' = e.acts
    /\ frames' = frames + 1
    /\ UNCHANGED <<agentVars, patrolVars, cacheVars, netVars, senseVars>>

BorderIdle == FrameOutOfSight(FALSE)

BorderPlayerFires == FrameOutOfSight(TRUE)

\* a session after its fifth kill, 270 and 272 frames in: the player
\* behind the wall at (200, 200), two enemies that were pushed through the
\* left outer wall by the boxes of the enemies spawned beside them, and
\* those four enemies, now held by the wall.  g is the first enemy's y and
\* the second enemy's x, y, vx and vy.
BeyondWall ==
    { [ships |-> << SpaceObject(1, 30000, 40000, 90, FullHp),
                    [SpaceObject(7, 0, g[1], 195, FullHp) EXCEPT
                        !.vx = -300, !.vy = -300],
                    [SpaceObject(8, g[2], g[3], 185, FullHp) EXCEPT
                        !.vx = g[4], !.vy = g[5]],
                    SpaceObject(9, 8000, 47700, 180, FullHp),
                    SpaceObject(10, 8000, 47800, 180, FullHp),
                    SpaceObject(11, 8000, 14400, 180, FullHp),
                    SpaceObject(12, 8000, 14500, 180, FullHp) >>,
       score |-> <<50, 0>>, next_id |-> 13] :
         g \in { <<19105, 2517, 16092, -224, -34>>,
                 <<18505, 2016, 16020, -259, -37>> } }

MaxIntegrations == 3

\* bodies for update_position alone: on the border of the world and
\* inside, at rest and moving
Bodies ==
    { [SpaceObject(1, x, y, angle, FullHp) EXCEPT !.vx = v[1], !.vy = v[2]] :
         x \in {0, 52000, WORLD_WIDTH}, y \in {0, 28900, WORLD_HEIGHT},
         angle \in {0, 90},
         v \in { <<0, 0>>, <<500, 0>>, <<0, -1200>>, <<500, -1200>> } }

\* update_position on the one body, as the player or as an enemy
Integrate ==
    /\ frames < MaxIntegrations
    /\ \E is_enemy \in BOOLEAN :
          ships' = <<update_position(ships[1], is_enemy)>>
    /\ frames' = frames + 1
    /\ UNCHANGED <<bullets, score, next_id, h_selfhit, h_phases, engine_coins, h_nocoin, h_acts>>
    /\ UNCHANGED <<agentVars, patrolVars, cacheVars, netVars, senseVars>>

EngineInit ==
    /\ ships = SessionStart.ships
    /\ bullets = <<>>
    /\ score = SessionStart.score
    /\ frames = 0
    /\ next_id = SessionStart.next_id
    /\ h_selfhit = FALSE
    /\ h_phases = <<>>
    /\ engine_coins = FarLayout
    /\ h_nocoin = FALSE
    /\ h_acts = <<>>

----------------------------------------------------------------------------
(* The tick of one enemy (engine.py chase_and_shoot).  rot and thr hold the *)
(* sums of what the tick passed to rotate and to thrust.                    *)

\* chase_player that starts the patrol over
ChaseRestartsPatrol(e, turn) ==
    [e EXCEPT !.rot = turn, !.thr = ChaseThrust,
              !.patrol_state = PATROL_STATE_FORWARD, !.patrol_timer = 0]

\* chase_player; turn is a tenth of the angle difference to the player
chase_player(e, turn) == [e EXCEPT !.rot = turn, !.thr = ChaseThrust]

\* chase_and_shoot without its shot: the enemies one tick can produce.
\* sees is can_see_player's answer.  avoid_walls, called for a wall ahead in
\* a state other than WALL_AVOID, finds no wall within its box or turns
\* away from one, to either side, with reverse thrust.
chase_and_shoot(e, sees, turn, wall_ahead, draw) ==
    IF sees THEN { chase_player(e, turn) }
    ELSE UNION { IF wall_ahead /\ m.patrol_state # PATROL_STATE_WALL_AVOID
                 THEN { m } \cup { [m EXCEPT !.rot = @ + 500 * side, !.thr = @ - 30] :
                                      side \in {-1, 1} }
                 ELSE { m } : m \in patrol_movement(e, wall_ahead, draw) }

MaxShots == 1

\* a tick with the player in sight, straight behind the enemy; with
\* random() < 0.02 the enemy, the ship at index 1, fires
EnemySeesPlayer ==
    /\ enemy' \in chase_and_shoot(enemy, TRUE, 1800, FALSE, FALSE)
    /\ \/ UNCHANGED bullets
       \/ /\ Len(bullets) < MaxShots
          /\ bullets' = Append(bullets, shoot(ships, 1))
    /\ <<enemy, bullets>>' # <<enemy, bullets>>
    /\ UNCHANGED <<p_quiet, ships, score, frames, next_id, h_selfhit, h_phases>>
    /\ UNCHANGED <<engine_coins, h_nocoin, h_acts>>
    /\ UNCHANGED <<agentVars, cacheVars, netVars, senseVars>>

\* a tick with the player out of sight; the turn is drawn only in FORWARD
\* with the timer above 180
EnemyPatrols ==
    /\ enemy.patrol_timer < MaxPatrolTimer
    /\ \E wall_ahead \in BOOLEAN :
       \E draw \in (IF /\ enemy.patrol_state = PATROL_STATE_FORWARD
                       /\ enemy.patrol_timer + 1 > ForwardPeriod
                    THEN BOOLEAN ELSE {FALSE}) :
          /\ enemy' \in chase_and_shoot(enemy, FALSE, 0, wall_ahead, draw)
          /\ p_quiet' = /\ \/ p_quiet
                           \/ /\ enemy.patrol_state = PATROL_STATE_FORWARD
                              /\ enemy.patrol_timer < ForwardPeriod
                        /\ ~wall_ahead
                        /\ ~DrawSucceeds(enemy, draw)
    /\ UNCHANGED <<agentVars, cacheVars, netVars, engineVars, senseVars>>

----------------------------------------------------------------------------
(* server.py: the helpers of the sensors.  Coordinates are whole units. *)

\* a wall dict of walls_data
Wall(x, y, width, height) == [x |-> x, y |-> y, width |-> width, height |-> height]

walls_data ==
    << Wall(50, 50, 1900, 20), Wall(50, 50, 20, 1900),
       Wall(50, 1930, 1900, 20), Wall(1930, 50, 20, 1900),
       Wall(200, 200, 20, 400), Wall(200, 600, 400, 20),
       Wall(600, 200, 20, 400), Wall(600, 600, 400, 20),
       Wall(1000, 200, 20, 800), Wall(200, 1000, 800, 20),
       Wall(1200, 200, 20, 800), Wall(1200, 1000, 400, 20),
       Wall(1600, 200, 20, 800), Wall(200, 1400, 400, 20),
       Wall(600, 1400, 20, 400), Wall(600, 1800, 400, 20),
       Wall(1000, 1400, 20, 400), Wall(1200, 1400, 400, 20),
       Wall(1600, 1400, 20, 400),
       Wall(300, 300, 100, 20), Wall(1500, 1500, 100, 20), Wall(800, 800, 20, 100) >>

\* None, where a point is expected
NoHit == <<>>

LaserRange == 50

CloseRange == 30

FilterMargin == 20

\* num / den, for a quotient that is a whole number (towards 0 otherwise)
Quot(num, den) ==
    IF (num >= 0) = (den > 0) THEN Abs(num) \div Abs(den) ELSE -(Abs(num) \div Abs(den))

\* math.sqrt, to the whole unit below
Isqrt(n) == CHOOSE r \in 0..n : r * r <= n /\ n < (r + 1) * (r + 1)

\* 0 <= num / den <= 1
InUnit(num, den) ==
    IF den > 0 THEN 0 <= num /\ num <= den ELSE den <= num /\ num <= 0

\* the mutant of line_intersects_line that takes the second segment for
\* the whole line through it
IntersectsWholeLine(x1, y1, x2, y2, x3, y3, x4, y4) ==
    LET den == (y4 - y3) * (x2 - x1) - (x4 - x3) * (y2 - y1)
        ua == (x4 - x3) * (y1 - y3) - (y4 - y3) * (x1 - x3)
    IN den # 0 /\ InUnit(ua, den)

line_intersects_line(x1, y1, x2, y2, x3, y3, x4, y4) ==
    LET den == (y4 - y3) * (x2 - x1) - (x4 - x3) * (y2 - y1)
        ua == (x4 - x3) * (y1 - y3) - (y4 - y3) * (x1 - x3)
        ub == (x2 - x1) * (y1 - y3) - (y2 - y1) * (x1 - x3)
    IN den # 0 /\ InUnit(ua, den) /\ InUnit(ub, den)

\* dummy_agent.py, the orientation test on the same segments; ccw(a, b, c)
\* is (c[1] - a[1]) * (b[0] - a[0]) > (b[1] - a[1]) * (c[0] - a[0])
_line_intersects_line(x1, y1, x2, y2, x3, y3, x4, y4) ==
    LET ccw(a, b, c) == (c[2] - a[2]) * (b[1] - a[1]) > (b[2] - a[2]) * (c[1] - a[1])
    IN /\ ccw(<<x1, y1>>, <<x3, y3>>, <<x4, y4>>) # ccw(<<x2, y2>>, <<x3, y3>>, <<x4, y4>>)
       /\ ccw(<<x1, y1>>, <<x2, y2>>, <<x3, y3>>) # ccw(<<x1, y1>>, <<x2, y2>>, <<x4, y4>>)

get_intersection_point(x1, y1, x2, y2, x3, y3, x4, y4) ==
    LET den == (y4 - y3) * (x2 - x1) - (x4 - x3) * (y2 - y1)
        ua == (x4 - x3) * (y1 - y3) - (y4 - y3) * (x1 - x3)
    IN IF den = 0 THEN NoHit
       ELSE << x1 + Quot(ua * (x2 - x1), den), y1 + Quot(ua * (y2 - y1), den) >>

\* the edges of a wall in the order line_intersects_rect tries them:
\* top, right, bottom, left
Edges(rect) ==
    LET left == rect.x
        top == rect.y
        right == left + rect.width
        bottom == top + rect.height
    IN << <<left, top, right, top>>, <<right, top, right, bottom>>,
          <<right, bottom, left, bottom>>, <<left, bottom, left, top>> >>

\* the point on the first edge that the segment meets, or None
line_intersects_rect(x1, y1, x2, y2, rect) ==
    LET edges == Edges(rect)
        met == { k \in 1..4 : line_intersects_line(x1, y1, x2, y2, edges[k][1],
                                    edges[k][2], edges[k][3], edges[k][4]) }
    IN IF met = {} THEN NoHit
       ELSE LET e == edges[CHOOSE k \in met : \A l \in met : k <= l]
            IN get_intersection_point(x1, y1, x2, y2, e[1], e[2], e[3], e[4])

\* check_laser, the loop over the walls from the k-th on
RECURSIVE LaserLoop(_, _, _, _, _, _, _, _)
LaserLoop(k, ws, x, y, end_x, end_y, closest_hit, min_distance) ==
    IF k > Len(ws) THEN [closest_hit |-> closest_hit, min_distance |-> min_distance]
    ELSE LET intersection == line_intersects_rect(x, y, end_x, end_y, ws[k])
             distance == Isqrt((intersection[1] - x) * (intersection[1] - x)
                               + (intersection[2] - y) * (intersection[2] - y))
         IN IF intersection # NoHit /\ distance < min_distance
            THEN LaserLoop(k + 1, ws, x, y, end_x, end_y, intersection, distance)
            ELSE LaserLoop(k + 1, ws, x, y, end_x, end_y, closest_hit, min_distance)

\* the laser sensor, for a heading along an axis; distance 0 stands for None
check_laser(x, y, angle, ws) ==
    LET end_x == x + Cos(angle) * LaserRange
        end_y == y + Sin(angle) * LaserRange
        r == LaserLoop(1, ws, x, y, end_x, end_y, NoHit, LaserRange)
    IN [hit |-> r.closest_hit # NoHit,
        distance |-> IF r.closest_hit # NoHit THEN r.min_distance ELSE 0]

\* the walls is_visible does not test: the centre lies outside the box of
\* the two points, widened by 20, in x and in y (centres are doubled here)
FarFromSight(from_x, from_y, to_x, to_y, wall) ==
    LET cx2 == 2 * wall.x + wall.width
        cy2 == 2 * wall.y + wall.height
        min_x == Min(from_x, to_x) - FilterMargin
        max_x == Max(from_x, to_x) + FilterMargin
        min_y == Min(from_y, to_y) - FilterMargin
        max_y == Max(from_y, to_y) + FilterMargin
    IN /\ (cx2 < 2 * min_x \/ cx2 > 2 * max_x)
       /\ (cy2 < 2 * min_y \/ cy2 > 2 * max_y)

is_visible(from_x, from_y, to_x, to_y, ws) ==
    LET dx == to_x - from_x
        dy == to_y - from_y
    IN \/ dx * dx + dy * dy < CloseRange * CloseRange
       \/ \A k \in 1..Len(ws) :
             \/ FarFromSight(from_x, from_y, to_x, to_y, ws[k])
             \/ line_intersects_rect(from_x, from_y, to_x, to_y, ws[k]) = NoHit

\* the positions of the sensor and of the candidate: around the dead-end
\* wall at (300, 300)
SensePoints == { <<x, y>> : x \in {290, 330, 350, 410}, y \in {270, 290, 310, 330, 350} }

\* the headings of the laser
Headings == {0, 90, 180, 270}

\* the wall lists the helpers are called with: the server's own, two thin
\* walls 20 apart, one wall 200 wide and high
WallSets ==
    { walls_data,
      << Wall(370, 300, 5, 20), Wall(350, 300, 5, 20) >>,
      << Wall(300, 300, 200, 200) >> }

\* nothing called yet: the arguments are chosen, the result is open
Arguments(from, to, angle, ws) ==
    [fn |-> "none", from |-> from, to |-> to, angle |-> angle, ws |-> ws,
     hit |-> FALSE, distance |-> 0, visible |-> FALSE, point |-> NoHit,
     edge |-> <<>>, crosses |-> FALSE]

\* sense: the laser of a ship at probe.from with heading probe.angle
CallCheckLaser ==
    /\ probe.fn = "none"
    /\ LET r == check_laser(probe.from[1], probe.from[2], probe.angle, probe.ws)
       IN probe' = [probe EXCEPT !.fn = "check_laser", !.hit = r.hit,
                                 !.distance = r.distance]
    /\ UNCHANGED <<agentVars, patrolVars, cacheVars, netVars, engineVars>>

\* sense: is the object at probe.to visible from probe.from
CallIsVisible ==
    /\ probe.fn = "none"
    /\ probe' = [probe EXCEPT !.fn = "is_visible",
                     !.visible = is_visible(probe.from[1], probe.from[2],
                                            probe.to[1], probe.to[2], probe.ws)]
    /\ UNCHANGED <<agentVars, patrolVars, cacheVars, netVars, engineVars>>

\* line_intersects_rect on the segment from probe.from to probe.to and the
\* first wall of probe.ws
CallLineIntersectsRect ==
    /\ probe.fn = "none"
    /\ probe' = [probe EXCEPT !.fn = "line_intersects_rect",
                     !.point = line_intersects_rect(probe.from[1], probe.from[2],
                                   probe.to[1], probe.to[2], probe.ws[1])]
    /\ UNCHANGED <<agentVars, patrolVars, cacheVars, netVars, engineVars>>

\* line_intersects_line, as line_intersects_rect calls it: on the segment
\* from probe.from to probe.to and an edge of the first wall of probe.ws
CallLineIntersectsLine ==
    /\ probe.fn = "none"
    /\ \E k \in 1..4 :
          LET e == Edges(probe.ws[1])[k]
          IN probe' = [probe EXCEPT !.fn = "line_intersects_line", !.edge = e,
                          !.crosses = line_intersects_line(
                                          probe.from[1], probe.from[2],
                                          probe.to[1], probe.to[2],
                                          e[1], e[2], e[3], e[4])]
    /\ UNCHANGED <<agentVars, patrolVars, cacheVars, netVars, engineVars>>

\* DummyAgent._line_intersects_line, as _line_intersects_rect calls it
CallAgentLineIntersectsLine ==
    /\ probe.fn = "none"
    /\ \E k \in 1..4 :
          LET e == Edges(probe.ws[1])[k]
          IN probe' = [probe EXCEPT !.fn = "_line_intersects_line", !.edge = e,
                          !.crosses = _line_intersects_line(
                                          probe.from[1], probe.from[2],
                                          probe.to[1], probe.to[2],
                                          e[1], e[2], e[3], e[4])]
    /\ UNCHANGED <<agentVars, patrolVars, cacheVars, netVars, engineVars>>

SenseInit == probe = Arguments(<<0, 0>>, <<0, 0>>, 0, <<>>)

WorldInit == PatrolInit /\ CacheInit /\ NetInit /\ EngineInit /\ SenseInit

----------------------------------------------------------------------------
(* Specifications *)

\* the stuck detector fed with position samples
InitStuck == AgentInit /\ access = FALSE /\ WorldInit

NextStuck == Advance \/ FeedSample

SpecStuck == InitStuck /\ [][NextStuck]_vars

\* the decision policy on sensor data and on game states
InitAgent == AgentInit /\ access = FALSE /\ WorldInit

NextAgent == Advance \/ SensorCall \/ DecideCall

SpecAgent == InitAgent /\ [][NextAgent]_vars

\* try_server_connection has run: a server answered /walls or none did
InitControl ==
    /\ AgentInit
    /\ access \in BOOLEAN
    /\ WorldInit

NextControl == Advance \/ ControlTick

SpecControl == InitControl /\ [][NextControl]_vars

\* one enemy out of the player's sight, ticked by chase_and_shoot
InitPatrol == AgentInit /\ access = FALSE /\ WorldInit

NextPatrol == PatrolClear \/ PatrolWall

SpecPatrol == InitPatrol /\ [][NextPatrol]_vars

\* one enemy, the player in sight or not from tick to tick
NextChase == EnemySeesPlayer \/ EnemyPatrols

SpecChase == InitPatrol /\ [][NextChase]_vars

\* the server's cache, written and read by clients
InitCache == AgentInit /\ access = FALSE /\ WorldInit

NextCache == ClientPost \/ QueryState

SpecCache == InitCache /\ [][NextCache]_vars

\* the engine publishing to the server through its send threads
InitNet == AgentInit /\ access \in BOOLEAN /\ WorldInit

NextNet ==
    EngineUpdate \/ ThreadSerialises \/ ServerReceives \/ ThreadFails \/ NetAdvance

SpecNet == InitNet /\ [][NextNet]_vars

\* the simulation: frames of the main loop from the start of a session
\* and from the middle of one
InitEngine ==
    /\ AgentInit /\ access = FALSE
    /\ PatrolInit /\ CacheInit /\ NetInit /\ SenseInit
    /\ \E c \in {SessionStart} \cup MidSession :
          /\ ships = c.ships
          /\ score = c.score
          /\ next_id = c.next_id
    /\ bullets = <<>>
    /\ frames = 0
    /\ h_selfhit = FALSE
    /\ h_phases = <<>>
    /\ engine_coins = FarLayout
    /\ h_nocoin = FALSE
    /\ h_acts = <<>>

NextEngine == FrameIdle \/ FramePlayerFires

SpecEngine == InitEngine /\ [][NextEngine]_vars

\* the simulation over the first frames only
RoundIdle == frames < MaxRounds /\ FrameIdle

RoundPlayerFires == frames < MaxRounds /\ FramePlayerFires

NextRounds == RoundIdle \/ RoundPlayerFires

SpecRounds == InitEngine /\ [][NextRounds]_vars

\* the first frames of a session whose player starts on some of its coins
InitCoins ==
    /\ AgentInit /\ access = FALSE
    /\ PatrolInit /\ CacheInit /\ NetInit /\ SenseInit
    /\ ships = SessionStart.ships
    /\ score = SessionStart.score
    /\ next_id = SessionStart.next_id
    /\ bullets = <<>>
    /\ frames = 0
    /\ h_selfhit = FALSE
    /\ h_phases = <<>>
    /\ engine_coins \in StartLayouts
    /\ h_nocoin = FALSE
    /\ h_acts = <<>>

SpecCoins == InitCoins /\ [][NextRounds]_vars

\* the frames of a session whose enemies have left the player's sight,
\* two of them beyond the left outer wall
InitBorder ==
    /\ AgentInit /\ access = FALSE
    /\ PatrolInit /\ CacheInit /\ NetInit /\ SenseInit
    /\ \E c \in BeyondWall :
          /\ ships = c.ships
          /\ score = c.score
          /\ next_id = c.next_id
    /\ bullets = <<>>
    /\ frames = 0
    /\ h_selfhit = FALSE
    /\ h_phases = <<>>
    /\ engine_coins = FarLayout
    /\ h_nocoin = FALSE
    /\ h_acts = <<>>

NextBorder == BorderIdle \/ BorderPlayerFires

SpecBorder == InitBorder /\ [][NextBorder]_vars

\* update_position applied again and again to one body
InitIntegrate ==
    /\ AgentInit /\ access = FALSE
    /\ PatrolInit /\ CacheInit /\ NetInit /\ SenseInit
    /\ \E b \in Bodies : ships = <<b>>
    /\ bullets = <<>>
    /\ score = <<0, 0>>
    /\ frames = 0
    /\ next_id = 2
    /\ h_selfhit = FALSE
    /\ h_phases = <<>>
    /\ engine_coins = FarLayout
    /\ h_nocoin = FALSE
    /\ h_acts = <<>>

NextIntegrate == Integrate

SpecIntegrate == InitIntegrate /\ [][NextIntegrate]_vars

\* the decision policy called once, in each state an agent can be in
InitCommand ==
    /\ agent \in AgentStates
    /\ sensor_data = NoSensor /\ ret = NoReturn /\ call = NoCall
    /\ raised_inside = FALSE /\ tick = NoTick /\ access = FALSE
    /\ h_adv = FALSE /\ h_cnt = 0 /\ h_low = 0 /\ h_far = FALSE
    /\ h_broken = FALSE /\ h_prev = NoPos /\ low_run = 0
    /\ WorldInit

NextCommand == CommandFromSensors \/ CommandFromDecide

SpecCommand == InitCommand /\ [][NextCommand]_vars

\* the sensor helpers of the server, called once on chosen arguments
InitSense ==
    /\ AgentInit /\ access = FALSE
    /\ PatrolInit /\ CacheInit /\ NetInit /\ EngineInit
    /\ \E from, to \in SensePoints, angle \in Headings, ws \in WallSets :
          probe = Arguments(from, to, angle, ws)

NextSense == CallCheckLaser \/ CallIsVisible \/ CallLineIntersectsRect

SpecSense == InitSense /\ [][NextSense]_vars

\* the two segment tests, called once on a segment around a wall 20 wide
\* and 40 high and on one of the wall's edges
InitSegments ==
    /\ AgentInit /\ access = FALSE
    /\ PatrolInit /\ CacheInit /\ NetInit /\ EngineInit
    /\ \E from, to \in SensePoints :
          probe = Arguments(from, to, 0, << Wall(330, 290, 20, 40) >>)

NextSegments == CallLineIntersectsLine \/ CallAgentLineIntersectsLine

SpecSegments == InitSegments /\ [][NextSegments]_vars

----------------------------------------------------------------------------
(* Claims about the stuck detector (SpecStuck) *)

\* C1 (as claimed): from a fresh agent, once 3 consecutive position samples
\* have been fed, each less than 5 units from the one before and each at
\* least 1 s after the previous stuck check, the stuck flag is set; and once
\* a 4th sample 5 units or more from the 3rd has followed, it is clear.
C1_StuckAfterThreeSamples ==
    /\ (~h_broken /\ h_cnt = 3 /\ h_low = 2) => agent.is_stuck
    /\ (~h_broken /\ h_cnt = 4 /\ h_low = 2 /\ h_far) => ~agent.is_stuck

\* C2 (as claimed): the stuck flag is true only if the 3 most recent
\* position samples compared were each below the 5-unit threshold.
C2_StuckOnlyAfterThreeLow == agent.is_stuck => low_run >= StuckThreshold

\* C2 (amended): the stuck flag is true only if the counter is at least 3
\* and the most recent position sample compared was below the threshold.
C2_StuckOnlyWithCountThree ==
    agent.is_stuck => (agent.stuck_count >= StuckThreshold /\ low_run >= 1)

\* C2 witness: the flag set again by a single low sample, after a moving
\* sample had cleared it and decremented the counter from 3 to 2.
C2_Witness == agent.is_stuck /\ low_run = 1 /\ agent.stuck_count = StuckThreshold

----------------------------------------------------------------------------
(* Claims about the decision policy (SpecAgent) *)

WellFormed(sd) == \A i \in 1..Len(sd.radar_objects) : sd.radar_objects[i].type # "nokey"

HasEnemy(sd) == \E i \in 1..Len(sd.radar_objects) : sd.radar_objects[i].type = "enemy"

\* the engagement of rule 5, band by band
C3_Engagement(e, c) ==
    /\ c.kind = "cmd"
    /\ e.distance < 50 =>
          /\ c.thrust = -50
          /\ c.shoot = (Abs(e.angle) < 15)
          /\ c.rotate = _calculate_turn_rate(e.angle, TRUE)
    /\ (50 <= e.distance /\ e.distance < 100) =>
          /\ c.thrust = 30
          /\ c.shoot = (Abs(e.angle) < 10)
          /\ c.rotate = IF e.angle > 0 THEN 300 ELSE -300
    /\ e.distance >= 100 =>
          /\ c.thrust = IF Abs(e.angle) < 30 THEN 50 ELSE 20
          /\ c.shoot = (Abs(e.angle) < 5 /\ e.distance < 300)
          /\ c.rotate = _calculate_turn_rate(e.angle, FALSE)

\* C3: for non-null sensor data with no laser hit and the stuck flag clear
\* whose radar list holds an enemy, decide_from_sensors returns the enemy
\* engagement for the nearest enemy (the first of them in the list), whatever
\* coins the list holds as well.
C3_EnemiesPreemptCoins ==
    (/\ call.fn = "decide_from_sensors"
     /\ sensor_data.kind # "null" /\ ~sensor_data.laser_hit
     /\ ~agent.is_stuck
     /\ WellFormed(sensor_data) /\ HasEnemy(sensor_data))
    => LET radar == sensor_data.radar_objects IN
       \E i \in 1..Len(radar) :
          /\ radar[i].type = "enemy"
          /\ \A j \in 1..Len(radar) :
                radar[j].type = "enemy" =>
                   \/ radar[i].distance < radar[j].distance
                   \/ (radar[i].distance = radar[j].distance /\ i <= j)
          /\ C3_Engagement(radar[i], ret)

\* C3 witness: an enemy at distance 40 listed with a coin at distance 30,
\* answered by the retreat command.
C3_Witness ==
    /\ call.fn = "decide_from_sensors"
    /\ sensor_data.radar_objects = <<RadarObj("enemy", 40, 4), RadarObj("coin", 30, 10)>>
    /\ ret.kind = "cmd" /\ ret.thrust = -50

\* C9: decide never lets an error out: it returns a command for every
\* argument, and exactly the neutral command whenever an exception was raised
\* inside it.
C9_DecideNeverRaises ==
    call.fn = "decide" =>
        /\ ret.kind = "cmd"
        /\ raised_inside => ret = NeutralCommand

\* C9 witness: a laser hit with a null distance makes decide_from_sensors
\* raise, and decide answers with the neutral command.
C9_Witness ==
    /\ call.fn = "decide" /\ call.shape = "sensor"
    /\ sensor_data.laser_hit /\ sensor_data.laser_kind = "null"
    /\ raised_inside /\ ret = NeutralCommand

\* C17: every command the decision policy returns, whichever branch built
\* it, has a thrust within [-1, 1] and a boolean shoot.
C17_CommandInRange ==
    ret.kind = "cmd" =>
        /\ -100 <= ret.thrust /\ ret.thrust <= 100
        /\ ret.shoot \in BOOLEAN

\* a stuck agent has backed up, the largest thrust astern
C17_Witness ==
    /\ call.fn = "decide_from_sensors"
    /\ agent.is_stuck /\ agent.stuck_count = 4
    /\ ret.kind = "cmd" /\ ret.thrust = -80 /\ ~ret.shoot

\* C39: for sensor data with a laser hit at a distance below 30 the agent
\* answers as an agent found stuck or by the near-wall rule (turn by 15 and
\* stop below 20, turn by 8 with thrust 0.1 from 20 on); the command of the
\* wall-ahead override, a turn by 5 with thrust 0, is never returned.
C39_HardOverrideUnreachable ==
    (/\ call.fn = "decide_from_sensors"
     /\ sensor_data.kind # "null"
     /\ sensor_data.laser_hit /\ sensor_data.laser_kind = "num"
     /\ sensor_data.laser_distance < 30)
    => /\ ret.kind = "cmd"
       /\ ~(Abs(ret.rotate) = 500 /\ ret.thrust = 0)
       /\ \/ agent.is_stuck
          \/ /\ Abs(ret.rotate) = (IF sensor_data.laser_distance < 20 THEN 1500 ELSE 800)
             /\ ret.thrust = (IF sensor_data.laser_distance < 20 THEN 0 ELSE 10)
             /\ ~ret.shoot

\* a wall 25 ahead, answered by the near-wall rule
C39_Witness ==
    /\ call.fn = "decide_from_sensors"
    /\ sensor_data.laser_hit /\ sensor_data.laser_kind = "num"
    /\ sensor_data.laser_distance = 25
    /\ ~agent.is_stuck
    /\ ret = Cmd(800, 10, FALSE)

\* C25 (as claimed): for non-null sensor data with no laser hit and the
\* stuck flag clear whose nearest enemy is at distance >= 100, the rotate
\* returned is the aggressive-mode turn rate of the enemy's angle (angle *
\* 0.2 below 20 degrees, 5 signed by the angle below 90, 8 signed by the
\* angle otherwise) and the thrust is 0.5 if |angle| < 30, else 0.2.
C25_ApproachIsAggressive ==
    (/\ call.fn = "decide_from_sensors"
     /\ sensor_data.kind # "null" /\ ~sensor_data.laser_hit
     /\ ~agent.is_stuck
     /\ WellFormed(sensor_data) /\ HasEnemy(sensor_data)
     /\ Nearest(OfType(sensor_data.radar_objects, "enemy")).distance >= 100)
    => LET e == Nearest(OfType(sensor_data.radar_objects, "enemy")) IN
       /\ ret.kind = "cmd"
       /\ ret.rotate = (IF Abs(e.angle) < 20 THEN e.angle * 20
                        ELSE IF Abs(e.angle) < 90 THEN 500 * SignOf(e.angle)
                        ELSE 800 * SignOf(e.angle))
       /\ ret.thrust = (IF Abs(e.angle) < 30 THEN 50 ELSE 20)

\* C21 (as claimed): over any sequence of calls, whenever the near-wall rule
\* fires (a laser hit at a distance below 50, the agent not stuck), the
\* rotate it returns has the sign of the rotate of the command the agent
\* returned on its previous call: positive when that was >= 0, negative
\* when it was < 0.
C21_WallTurnKeepsSign ==
    [][(/\ ret.kind = "cmd"
        /\ call'.fn = "decide_from_sensors"
        /\ sensor_data'.kind # "null" /\ ~agent'.is_stuck
        /\ sensor_data'.laser_hit /\ sensor_data'.laser_kind = "num"
        /\ sensor_data'.laser_distance < 50)
          => (ret'.rotate > 0) = (ret.rotate >= 0)]_vars

----------------------------------------------------------------------------
(* Claims about agent control (SpecControl) *)

\* C8 (as claimed): whatever the outcome of the decision request, the value
\* get_agent_actions returned is a command with rotate, thrust and shoot,
\* the tick applied it, and no exception reached the main loop.
C8_TickAlwaysGetsCommand ==
    tick.outcome # "none" => (ret.kind = "cmd" /\ ~tick.crashed)

----------------------------------------------------------------------------
(* Claims about the patrol machine (SpecPatrol) *)

\* C4: starting in FORWARD with timer < 180, as long as the look-ahead probe
\* has reported no wall and the FORWARD->TURNING draw has not succeeded, the
\* patrol state is still FORWARD, after any number of patrol ticks.
C4_ForwardStaysForward ==
    p_quiet => enemy.patrol_state = PATROL_STATE_FORWARD

\* the timer has passed 180 with the draw made and failed, still FORWARD
C4_Witness ==
    /\ p_quiet
    /\ enemy.patrol_state = PATROL_STATE_FORWARD
    /\ enemy.patrol_timer > ForwardPeriod + 1

\* C20 (as claimed): every patrol tick of an enemy in the TURNING state
\* brings the remaining turn target nearer to zero by min(2, 10% of what
\* remains), however TURNING was entered: by the random transition from
\* FORWARD or by the forced reversal from WALL_AVOID, with either direction.
C20_TurnTargetShrinks ==
    [][enemy.patrol_state = PATROL_STATE_TURNING
          => /\ Abs(enemy'.patrol_turn_target) < Abs(enemy.patrol_turn_target)
             /\ Abs(enemy'.patrol_turn_target)
                   = Abs(enemy.patrol_turn_target) - turn_amount(enemy.patrol_turn_target)]_vars

\* C26 (as claimed): after the patrol machine enters WALL_AVOID, reverse
\* thrust (-0.2) is applied on exactly the first 15 patrol ticks spent in
\* that state and on no later tick of the same stay.  Before a tick in
\* WALL_AVOID the timer holds the ticks already spent in the stay.
C26_ReverseThrustFifteenTicks ==
    [][enemy.patrol_state = PATROL_STATE_WALL_AVOID
          => ((enemy'.thr = -20) <=> (enemy.patrol_timer + 1 <= 15))]_vars

\* C27: for any readings of the wall probe, no patrol tick starts in
\* TURNING after 121 consecutive ticks there, and none in WALL_AVOID after
\* 91: before a tick the timer holds the ticks already spent in the state.
\* TURNING is left for FORWARD only with the remaining target below 5
\* degrees or the timer above 120, WALL_AVOID for FORWARD only with the
\* timer above 30 and for TURNING only with the timer above 90, the target
\* then being 180.
C27_BoundedDwell ==
    [][/\ enemy.patrol_state = PATROL_STATE_TURNING
             => /\ enemy.patrol_timer + 1 <= 121
                /\ enemy'.patrol_state = PATROL_STATE_FORWARD
                      => \/ Abs(enemy'.patrol_turn_target) < 500
                         \/ enemy.patrol_timer + 1 > 120
       /\ enemy.patrol_state = PATROL_STATE_WALL_AVOID
             => /\ enemy.patrol_timer + 1 <= 91
                /\ enemy'.patrol_state = PATROL_STATE_FORWARD
                      => enemy.patrol_timer + 1 > 30
                /\ enemy'.patrol_state = PATROL_STATE_TURNING
                      => /\ enemy.patrol_timer + 1 > 90
                         /\ enemy'.patrol_turn_target = 18000]_vars

\* 120 ticks were spent in TURNING, which the 91st tick of a wall avoidance
\* had forced
C27_Witness ==
    /\ enemy.patrol_state = PATROL_STATE_TURNING
    /\ enemy.patrol_timer = 120
    /\ Abs(enemy.patrol_turn_target) >= 18000

\* C28: a patrol tick that starts in FORWARD or TURNING and whose look-ahead
\* probe reports a wall ends in WALL_AVOID with timer 0, also when the
\* random change from FORWARD to TURNING or the completion of the turn fired
\* in the same tick.
C28_WallPreempts ==
    [][(PatrolWall /\ enemy.patrol_state \in {PATROL_STATE_FORWARD, PATROL_STATE_TURNING})
          => /\ enemy'.patrol_state = PATROL_STATE_WALL_AVOID
             /\ enemy'.patrol_timer = 0]_vars

\* a FORWARD tick drew a turn of 110 degrees to the left and saw a wall
C28_Witness ==
    /\ enemy.patrol_state = PATROL_STATE_WALL_AVOID
    /\ enemy.patrol_timer = 0
    /\ enemy.thr = 20
    /\ enemy.patrol_turn_target = -11000 /\ enemy.patrol_direction = -1

----------------------------------------------------------------------------
(* Claims about the enemy's tick (SpecChase) *)

\* C29: a tick in which the enemy sees the player (the chase branch) leaves
\* patrol_state, patrol_timer, patrol_turn_target and patrol_direction as
\* they were: the patrol resumes where it stopped.
C29_ChaseKeepsPatrol ==
    [][EnemySeesPlayer
          => /\ enemy'.patrol_state = enemy.patrol_state
             /\ enemy'.patrol_timer = enemy.patrol_timer
             /\ enemy'.patrol_turn_target = enemy.patrol_turn_target
             /\ enemy'.patrol_direction = enemy.patrol_direction]_vars

\* the enemy chased and fired five ticks into a turn to the left
C29_Witness ==
    /\ enemy.patrol_state = PATROL_STATE_TURNING
    /\ enemy.patrol_timer = 5
    /\ enemy.patrol_direction = -1
    /\ enemy.thr = ChaseThrust /\ enemy.rot = 1800
    /\ Len(bullets) = 1

----------------------------------------------------------------------------
(* Claims about the state cache (SpecCache) and publication (SpecNet) *)

\* the default the specification describes
EmptyShapedDefault == Body(StateKeys, <<>>, <<>>, <<>>, <<I(0), I(0)>>)

\* C5 (as claimed): a state query answered before any publish returns empty
\* ships, bullets and coins and the score [0, 0].
C5_DefaultHasZeroScore ==
    (posted = NoPost /\ reply # NoReply) => SameState(reply, EmptyShapedDefault)

\* C6: a valid state that was published and then queried, with no other
\* publish in between, comes back equal field for field (ships, bullets,
\* coins, score).
C6_RoundTrip ==
    (h_rt = "roundtrip" /\ WholeInts(posted.state))
        => (StateKeys \subseteq reply.keys /\ SameState(reply, posted.state))

\* a state with ships and a bullet went round, its ints converted to floats
C6_Witness ==
    /\ h_rt = "roundtrip"
    /\ WholeInts(posted.state)
    /\ Len(posted.state.ships) = 2
    /\ Len(posted.state.bullets) = 1
    /\ posted.state.ships[2].x.t = "int"
    /\ reply.ships[2].x.t = "float"

\* C7 (as claimed): once the engine has published, no send is in flight any
\* more and none has failed, the cache holds the state of the engine's most
\* recent publish; in particular not the state of an earlier one.
C7_CacheHoldsLatestPublish ==
    (inflight = {} /\ ~h_lost /\ publisher.published >= 1)
        => cache_src = publisher.published

\* C24 (as claimed): the payload a send thread delivers to the server is a
\* snapshot of one tick: its ships, bullets, coins and score are all those
\* of the engine at the update that built the payload, even when the
\* engine ran further updates before the thread serialised and sent it.
C24_PayloadIsSnapshot ==
    \A f \in 1..MaxFrames :
        (posted.status = 200 /\ posted.state.ships = NetState(f).ships)
            => posted.state = NetState(f)

\* C16: a publish is started only with a server connection established,
\* and only when no publish was started before or a full period of 0.1 s
\* has passed since the last one was: at most 10 a second.
C16_PublishRateLimited ==
    [][publisher'.published > publisher.published
          => (access /\ (h_gap = NoTime \/ h_gap >= 1))]_vars

\* three updates with a connection: two have published, one between them
\* came too early and did not
C16_Witness ==
    access /\ publisher.frame = 3 /\ publisher.published = 2 /\ h_gap = 0

----------------------------------------------------------------------------
(* Claims about the simulation (SpecEngine) *)

\* C10 (as claimed): over any sequence of ticks, shots, ship removals and
\* enemy spawns, no bullet reduces the hp of the ship that fired it.
C10_NoSelfDamage == ~h_selfhit

\* the phase a step of update belongs to: integration and collision
\* resolution, damage and removal, score, publication
PhaseOf(st) ==
    CASE st.ph \in {"integrate", "collide"} -> 1
      [] st.ph \in {"damage", "remove"} -> 2
      [] st.ph = "score" -> 3
      [] st.ph = "publish" -> 4

\* C11 (as claimed): within one update, each ship's integration comes
\* before its collision resolution, every integration and collision
\* resolution before every bullet damage and ship removal, these before
\* every score update, and the score updates before the publication.
C11_PhasesInOrder ==
    /\ \A p, q \in 1..Len(h_phases) :
          p < q => PhaseOf(h_phases[p]) <= PhaseOf(h_phases[q])
    /\ \A q \in 1..Len(h_phases) :
          h_phases[q].ph = "collide"
              => \E p \in 1..(q - 1) : h_phases[p] = Step("integrate", h_phases[q].ship)

\* C12 (as claimed): at the end of every update the player has |vx| <= 8
\* and |vy| <= 8, and every other ship, whatever its index in the list, has
\* |vx| <= 3 and |vy| <= 3.
C12_RoleSpeedClamp ==
    frames > 0 =>
        /\ Abs(ships[1].vx) <= PlayerMaxSpeed
        /\ Abs(ships[1].vy) <= PlayerMaxSpeed
        /\ \A j \in 2..Len(ships) :
              Abs(ships[j].vx) <= EnemyMaxSpeed /\ Abs(ships[j].vy) <= EnemyMaxSpeed

\* C13 (as claimed): in every reachable state every ship's angle lies in
\* [0, 360): the ships of the session start, the enemies spawned after a
\* kill, and every ship after its rotate calls.
C13_AngleNormalised ==
    \A j \in 1..Len(ships) : 0 <= ships[j].angle /\ ships[j].angle < 360

\* C22 (as claimed): at the end of every engine update the live ship list
\* contains no ship with hp <= 0.
C22_NoDeadShipListed ==
    frames > 0 => \A j \in 1..Len(ships) : ships[j].hp > 0

\* C23 (as claimed): whenever an update removes an enemy (a ship other than
\* the player) because its hp is <= 0, exactly two new enemies are added to
\* the ship list in the same update, whatever the dead enemy's index.
C23_DeadEnemyReplacedByTwo ==
    [][(\E j \in 2..Len(ships) :
           /\ ships[j].hp <= 0
           /\ \A k \in 1..Len(ships') : ships'[k].id # ships[j].id)
         => Cardinality({ k \in 1..Len(ships') : ships'[k].id >= next_id }) = 2]_vars

\* C30 (as claimed): at the end of every update every bullet still in the
\* bullet list has lifespan > 0, lies within the world, overlaps no wall and
\* is not within the hit radius of a ship other than the one that fired
\* it; every update lowers the lifespan of a bullet it keeps by one, so
\* that a bullet, fired with lifespan 60, is gone after at most 60 updates.
C30_BulletsTransient ==
    /\ frames > 0 =>
          \A k \in 1..Len(bullets) :
             /\ bullets[k].lifespan > 0
             /\ bullets[k].lifespan <= BulletLifespan
             /\ ~is_offscreen(bullets[k])
             /\ ~HitsWall(bullets[k])
             /\ \A j \in 1..Len(ships) :
                   ships[j].id # bullets[k].by => ~_collides(bullets[k], ships[j])

\* the ships of the list whose box ship id meets in its "collide" step, at
\* position q of the log of the update: every ship of the list before the
\* update but id itself and those removed earlier in the log, each where it
\* stands at that moment, moved already when its own "collide" step came
\* earlier
BoxAt(o, q) ==
    IF \E p \in 1..(q - 1) : h_phases'[p].ph = "collide" /\ h_phases'[p].ship = o.id
    THEN LET after == CHOOSE j \in 1..Len(ships') : ships'[j].id = o.id
         IN ShipRect(ships'[after])
    ELSE ShipRect(o)

OthersAt(q) ==
    LET others == SelectSeq(ships, LAMBDA o :
                     /\ o.id # h_phases'[q].ship
                     /\ ~\E p \in 1..(q - 1) : h_phases'[p] = Step("remove", o.id))
    IN [j \in 1..Len(others) |-> BoxAt(others[j], q)]

\* C31: in every update, the rectangles a ship is checked against are the
\* static walls and then exactly the 20x20 boxes of the other ships in the
\* list at that moment: not its own box, not the box of a ship removed
\* earlier in the update
C31_CollisionSetTracksLiveList ==
    [][\A q \in 1..Len(h_phases') :
          h_phases'[q].ph = "collide"
             => h_phases'[q].rects = walls \o OthersAt(q)]_vars

\* a ship checked after another ship has been removed in the same update
C31_Witness ==
    \E p, q \in 1..Len(h_phases) :
       /\ p < q
       /\ h_phases[p].ph = "remove"
       /\ h_phases[q].ph = "collide"
       /\ Len(h_phases[q].rects) = Len(walls) + 1
       /\ Len(ships) >= 4

\* C32: at the end of every engine update every ship's position lies in
\* the world, 0 <= x <= 2000 and 0 <= y <= 2000.
C32_ShipsInsideWorld ==
    frames > 0 =>
       \A q \in 1..Len(ships) :
          /\ 0 <= ships[q].x /\ ships[q].x <= WORLD_WIDTH
          /\ 0 <= ships[q].y /\ ships[q].y <= WORLD_HEIGHT

\* C33: as long as generate_coins has found a place for every replacement,
\* at least ten coins lie in the world after every frame, however many the
\* player has collected in it
C33_CoinsReplenished == ~h_nocoin => Len(engine_coins) >= MinCoins

\* the player has collected at least twelve coins, eleven or more of them
\* in one frame, and every replacement was found a place
C33_Witness ==
    /\ ~h_nocoin
    /\ Len(engine_coins) = MinCoins
    /\ score[1] >= 12
    /\ frames = 2

\* the enemies a frame destroys: alive before it, listed with hp <= 0
\* after it
Destroyed ==
    { j \in 2..Len(ships) :
         /\ ships[j].hp > 0
         /\ \E k \in 1..Len(ships') :
               ships'[k].id = ships[j].id /\ ships'[k].hp <= 0 }

\* C35 (as claimed): over every frame the player's score grows by ten for
\* each enemy whose hp a bullet brings to 0 or below in it, whatever the
\* enemy's index in the list, and by nothing else (no coin is collected).
C35_TenPointsPerKill ==
    [][engine_coins' = engine_coins
          => score'[1] = score[1] + KillPoints * Cardinality(Destroyed)]_vars

\* C36: after every update of a session the first ship of the list is the
\* player the session started with, destroyed or not, and the list holds
\* at least one more ship
C36_PlayerFirstAndAnEnemy ==
    frames > 0 => ships[1].id = SessionStart.ships[1].id /\ Len(ships) >= 2

\* an update has removed the enemy at index 2 and put no ship in its
\* place: the player and one enemy are left
C36_Witness ==
    /\ frames = 2
    /\ Len(ships) = 2
    /\ ships[1].id = SessionStart.ships[1].id
    /\ ships[2].id = 3
    /\ \E q \in 1..Len(h_phases) : h_phases[q] = Step("remove", 4)

\* the player is destroyed, the session over, and the player still listed
C36_PlayerDestroyed == frames > 0 /\ ships[1].hp <= 0 /\ ships[1].id = 1

\* C37 (as claimed): every ship that runs chase_and_shoot in a frame, and
\* every ship that fires in it, has hp above 0 at that moment.
C37_DeadShipsDoNotAct == \A q \in 1..Len(h_acts) : h_acts[q].hp > 0

\* C38 (as claimed): after every update no ship's 20x20 box overlaps a
\* static wall.
C38_NoShipInWall ==
    frames > 0 =>
        \A j \in 1..Len(ships) : \A w \in 1..Len(walls) :
            ~colliderect(ShipRect(ships[j]), walls[w])

\* C18: update_position applied to a body at rest (zero velocity, no
\* thrust) inside the world's bounds leaves x, y and angle as they were and
\* the body at rest, so any number of applications leaves them unchanged.
C18_RestIsFixed ==
    [][(/\ ships[1].vx = 0 /\ ships[1].vy = 0
        /\ 0 <= ships[1].x /\ ships[1].x <= WORLD_WIDTH
        /\ 0 <= ships[1].y /\ ships[1].y <= WORLD_HEIGHT)
          => ships' = ships]_vars

\* a body at rest on the far border of the world was integrated three times
C18_Witness ==
    /\ frames = 3
    /\ ships[1].vx = 0 /\ ships[1].vy = 0
    /\ ships[1].x = WORLD_WIDTH /\ ships[1].y = WORLD_HEIGHT /\ ships[1].angle = 90

----------------------------------------------------------------------------
(* Claims about the sensor helpers (SpecSense) *)

Between(v, a, b) == Min(a, b) <= v /\ v <= Max(a, b)

\* the distances from (x, y) to the points where the ray to (end_x, end_y),
\* along an axis, meets an edge of a wall of ws across it
RayEdgeDistances(x, y, end_x, end_y, ws) ==
    LET E == { Edges(ws[k])[j] : k \in 1..Len(ws), j \in 1..4 }
    IN { Abs(e[1] - x) : e \in { e \in E : /\ e[1] = e[3] /\ y = end_y
                                            /\ Between(e[1], x, end_x)
                                            /\ Between(y, e[2], e[4]) } }
       \cup
       { Abs(e[2] - y) : e \in { e \in E : /\ e[2] = e[4] /\ x = end_x
                                            /\ Between(e[2], y, end_y)
                                            /\ Between(x, e[1], e[3]) } }

\* C14 (as claimed): whenever check_laser reports a hit, the distance it
\* reports is at most 50 and is the least distance from the ship to a point
\* where the 50-unit ray meets an edge of a wall.
C14_LaserNearest ==
    (probe.fn = "check_laser" /\ probe.hit) =>
        LET D == RayEdgeDistances(probe.from[1], probe.from[2],
                                  probe.from[1] + Cos(probe.angle) * LaserRange,
                                  probe.from[2] + Sin(probe.angle) * LaserRange,
                                  probe.ws)
        IN /\ probe.distance <= LaserRange
           /\ D # {}
           /\ \A d \in D : probe.distance <= d
           /\ probe.distance \in D

Sgn(v) == IF v > 0 THEN 1 ELSE IF v < 0 THEN -1 ELSE 0

\* the side of the line from a to b on which c lies (0: on it)
Turn(a, b, c) == Sgn((b[1] - a[1]) * (c[2] - a[2]) - (b[2] - a[2]) * (c[1] - a[1]))

\* the segments from a to b and from c to d have a point in common
SegmentsMeet(a, b, c, d) ==
    LET o1 == Turn(a, b, c)
        o2 == Turn(a, b, d)
        o3 == Turn(c, d, a)
        o4 == Turn(c, d, b)
    IN IF o1 = 0 /\ o2 = 0 /\ o3 = 0 /\ o4 = 0
       THEN /\ Max(Min(a[1], b[1]), Min(c[1], d[1])) <= Min(Max(a[1], b[1]), Max(c[1], d[1]))
            /\ Max(Min(a[2], b[2]), Min(c[2], d[2])) <= Min(Max(a[2], b[2]), Max(c[2], d[2]))
       ELSE o1 * o2 <= 0 /\ o3 * o4 <= 0

\* some edge of the wall has a point in common with the segment
CrossesWall(from, to, wall) ==
    \E j \in 1..4 :
        LET e == Edges(wall)[j]
        IN SegmentsMeet(from, to, <<e[1], e[2]>>, <<e[3], e[4]>>)

FarApart(from, to) ==
    (to[1] - from[1]) * (to[1] - from[1]) + (to[2] - from[2]) * (to[2] - from[2])
        >= CloseRange * CloseRange

\* C15 (as claimed): for every wall list and every sensor and candidate 30
\* units or more apart, is_visible answers true exactly when no edge of any
\* wall meets the segment from the sensor to the candidate; skipping the
\* walls whose centre is far from the segment changes no answer.
C15_VisibleIffClear ==
    (probe.fn = "is_visible" /\ FarApart(probe.from, probe.to)) =>
        (probe.visible <=>
            \A k \in 1..Len(probe.ws) : ~CrossesWall(probe.from, probe.to, probe.ws[k]))

\* the point lies inside the wall's rectangle or on its border
InRect(pt, wall) ==
    /\ wall.x <= pt[1] /\ pt[1] <= wall.x + wall.width
    /\ wall.y <= pt[2] /\ pt[2] <= wall.y + wall.height

\* no point of the segment lies inside or on the wall's rectangle
Outside(from, to, wall) ==
    ~InRect(from, wall) /\ ~InRect(to, wall) /\ ~CrossesWall(from, to, wall)

\* C19: for a wall and a segment that lies entirely outside the wall's
\* rectangle, line_intersects_rect returns none.
C19_OutsideGivesNone ==
    (probe.fn = "line_intersects_rect" /\ Outside(probe.from, probe.to, probe.ws[1]))
        => probe.point = NoHit

\* a segment that passes the wall outside, across the line through one of
\* its edges, was tried and gave none
C19_Witness ==
    /\ probe.fn = "line_intersects_rect"
    /\ Outside(probe.from, probe.to, probe.ws[1])
    /\ \E j \in 1..4 :
          LET e == Edges(probe.ws[1])[j]
          IN Turn(<<e[1], e[2]>>, <<e[3], e[4]>>, probe.from)
                 * Turn(<<e[1], e[2]>>, <<e[3], e[4]>>, probe.to) < 0
    /\ probe.point = NoHit

\* the segments from a to b and from c to d, neither a single point, have
\* exactly one point in common, and it is an end of one of them
TouchOnly(a, b, c, d) ==
    LET o1 == Turn(a, b, c)
        o2 == Turn(a, b, d)
        o3 == Turn(c, d, a)
        o4 == Turn(c, d, b)
    IN /\ a # b /\ c # d
       /\ SegmentsMeet(a, b, c, d)
       /\ IF o1 = 0 /\ o2 = 0 /\ o3 = 0 /\ o4 = 0
          THEN /\ Max(Min(a[1], b[1]), Min(c[1], d[1])) = Min(Max(a[1], b[1]), Max(c[1], d[1]))
               /\ Max(Min(a[2], b[2]), Min(c[2], d[2])) = Min(Max(a[2], b[2]), Max(c[2], d[2]))
          ELSE o1 = 0 \/ o2 = 0 \/ o3 = 0 \/ o4 = 0

\* C34 (as claimed): for two segments whose only common point is an end of
\* one of them, the segment test, the server's and the agent's, answers
\* false.
C34_TouchingIsNoIntersection ==
    (/\ probe.fn \in {"line_intersects_line", "_line_intersects_line"}
     /\ TouchOnly(probe.from, probe.to, <<probe.edge[1], probe.edge[2]>>,
                  <<probe.edge[3], probe.edge[4]>>))
        => ~probe.crosses

====
